---- MODULE Spec2Model ----
(***************************************************************************)
(* A model of the RNDF (road network description format) reader of         *)
(* gz-rndf: the line-oriented lexical utilities, the block readers with    *)
(* their backtracking header scans, the document assembler, the tree-wide  *)
(* Valid predicate and the unique-id cache.                                *)
(*                                                                         *)
(* Text is modelled at character level: a std::string is a sequence of     *)
(* one-character strings, a file is a sequence of physical lines (each     *)
(* terminated by a newline, as the std::getline loop sees them).           *)
(***************************************************************************)
EXTENDS Integers, Sequences, FiniteSets, TLC

\* With([x \in {e} |-> body]) is body with x bound to the value of e,
\* computed once: a local variable.
With(f) == f[CHOOSE k \in DOMAIN f : TRUE]

(***************************************************************************)
(* std::string helpers                                                     *)
(***************************************************************************)

\* isspace() in the "C" locale: space, tab, line feed, vertical tab, form
\* feed and carriage return.
IsSpace(c) == c \in {" ", "\t", "\n", "", "\f", "\r"}

Digits == <<"0", "1", "2", "3", "4", "5", "6", "7", "8", "9">>

IsDigit(c) == \E i \in 1..10 : Digits[i] = c

DigitVal(c) == (CHOOSE i \in 1..10 : Digits[i] = c) - 1

\* s starts with sub at (1-based) index i.
MatchAt(s, sub, i) ==
  /\ i >= 1
  /\ i + Len(sub) - 1 <= Len(s)
  /\ \A k \in 1..Len(sub) : s[i + k - 1] = sub[k]

\* std::string::find: 1-based index of the first occurrence, 0 for npos.
Find(s, sub) ==
  With([hits \in {{i \in 1..Len(s) : MatchAt(s, sub, i)}} |->
  IF hits = {} THEN 0 ELSE CHOOSE i \in hits : \A j \in hits : i <= j])

\* std::string::rfind: 1-based index of the last occurrence, 0 for npos.
RFind(s, sub) ==
  With([hits \in {{i \in 1..Len(s) : MatchAt(s, sub, i)}} |->
  IF hits = {} THEN 0 ELSE CHOOSE i \in hits : \A j \in hits : i >= j])

\* std::string::erase(pos, count) with pos 1-based; count is a size_t, so a
\* negative difference wraps to a huge count and erases to the end.
Erase(s, pos, count) ==
  IF count < 0 THEN SubSeq(s, 1, pos - 1)
  ELSE SubSeq(s, 1, pos - 1) \o SubSeq(s, pos + count, Len(s))

\* std::unique with the predicate "both are whitespace".
RECURSIVE UniqueSpaces(_, _)
UniqueSpaces(s, i) ==
  IF i > Len(s) THEN <<>>
  ELSE IF i > 1 /\ IsSpace(s[i - 1]) /\ IsSpace(s[i])
       THEN UniqueSpaces(s, i + 1)
       ELSE <<s[i]>> \o UniqueSpaces(s, i + 1)

trimWhitespaces(str) ==
  With([commentStart \in {Find(str, <<"/", "*">>)} |->
  With([commentEnd \in {RFind(str, <<"*", "/">>)} |->
  With([s1 \in {IF commentStart # 0 /\ commentEnd # 0
      THEN Erase(str, commentStart, commentEnd - commentStart + 2)
      ELSE str} |->
  With([s2 \in {UniqueSpaces(s1, 1)} |->
  With([s3 \in {IF s2 # <<>> /\ IsSpace(s2[1]) THEN Tail(s2) ELSE s2} |->
  With([s4 \in {IF s3 # <<>> /\ IsSpace(s3[Len(s3)])
      THEN SubSeq(s3, 1, Len(s3) - 1) ELSE s3} |->
  [i \in 1..Len(s4) |-> IF IsSpace(s4[i]) THEN " " ELSE s4[i]]])])])])])])

\* strtok loop: the maximal runs of characters that are not delimiters.
RECURSIVE splitFrom(_, _, _, _)
splitFrom(s, delim, i, cur) ==
  IF i > Len(s) THEN (IF cur = <<>> THEN <<>> ELSE <<cur>>)
  ELSE IF s[i] = delim
       THEN (IF cur = <<>> THEN <<>> ELSE <<cur>>) \o splitFrom(s, delim, i + 1, <<>>)
       ELSE splitFrom(s, delim, i + 1, Append(cur, s[i]))

split(str, delim) == splitFrom(str, delim, 1, <<>>)

IntMax == 2147483647

\* Number of leading characters of s (from index i) that are digits.
RECURSIVE DigitRun(_, _)
DigitRun(s, i) ==
  IF i <= Len(s) /\ IsDigit(s[i]) THEN 1 + DigitRun(s, i + 1) ELSE 0

RECURSIVE ZeroRun(_, _)
ZeroRun(s, i) ==
  IF i <= Len(s) /\ s[i] = "0" THEN 1 + ZeroRun(s, i + 1) ELSE 0

RECURSIVE SpaceRun(_, _)
SpaceRun(s, i) ==
  IF i <= Len(s) /\ IsSpace(s[i]) THEN 1 + SpaceRun(s, i + 1) ELSE 0

RECURSIVE DecValue(_, _, _)
DecValue(s, i, n) ==
  IF n = 0 THEN 0 ELSE DecValue(s, i, n - 1) * 10 + DigitVal(s[i + n - 1])

\* The n digits of s from index i, read as a number, exceed the n digits of lim.
RECURSIVE DigitsGreater(_, _, _, _)
DigitsGreater(s, i, lim, k) ==
  IF k > Len(lim) THEN FALSE
  ELSE IF DigitVal(s[i + k - 1]) # DigitVal(lim[k])
       THEN DigitVal(s[i + k - 1]) > DigitVal(lim[k])
       ELSE DigitsGreater(s, i, lim, k + 1)

IntMaxDigits == <<"2", "1", "4", "7", "4", "8", "3", "6", "4", "7">>

IntMinDigits == <<"2", "1", "4", "7", "4", "8", "3", "6", "4", "8">>

\* std::stoi(str, &sz): ok is FALSE where stoi throws (no digits, or out of
\* the range of int); sz is the number of characters consumed.
stoi(s) ==
  With([ws \in {SpaceRun(s, 1)} |->
  With([sign \in {IF ws + 1 <= Len(s) /\ s[ws + 1] \in {"-", "+"} THEN 1 ELSE 0} |->
  With([neg \in {sign = 1 /\ s[ws + 1] = "-"} |->
  With([first \in {ws + sign + 1} |->
  With([nd \in {DigitRun(s, first)} |->
  With([zeros \in {ZeroRun(s, first)} |->
  With([nz \in {IF zeros > nd THEN nd ELSE zeros} |->
  With([sd \in {nd - nz} |->
  With([lim \in {IF neg THEN IntMinDigits ELSE IntMaxDigits} |->
  With([tooBig \in {sd > 10 \/ (sd = 10 /\ DigitsGreater(s, first + nz, lim, 1))} |->
  With([isMin \in {neg /\ sd = 10 /\ SubSeq(s, first + nz, first + nd - 1) = IntMinDigits} |->
  IF nd = 0 \/ tooBig THEN [ok |-> FALSE, val |-> 0, sz |-> 0]
  ELSE [ok |-> TRUE,
        val |-> IF isMin THEN (0 - IntMax) - 1
                ELSE IF neg THEN 0 - DecValue(s, first + nz, sd)
                ELSE DecValue(s, first + nz, sd),
        sz |-> ws + sign + nd]])])])])])])])])])])])

\* tolower() and isalpha() on the letters of the "C" locale.
UpperCase ==
  <<"A", "B", "C", "D", "E", "F", "G", "H", "I", "J", "K", "L", "M",
    "N", "O", "P", "Q", "R", "S", "T", "U", "V", "W", "X", "Y", "Z">>

LowerCase ==
  <<"a", "b", "c", "d", "e", "f", "g", "h", "i", "j", "k", "l", "m",
    "n", "o", "p", "q", "r", "s", "t", "u", "v", "w", "x", "y", "z">>

ToLower(c) ==
  IF \E i \in 1..26 : UpperCase[i] = c
  THEN LowerCase[CHOOSE i \in 1..26 : UpperCase[i] = c]
  ELSE c

IsAlpha(c) == \E i \in 1..26 : LowerCase[i] = ToLower(c)

IsHexDigit(c) == IsDigit(c) \/ \E i \in 1..6 : LowerCase[i] = ToLower(c)

HexVal(c) ==
  IF IsDigit(c) THEN DigitVal(c)
  ELSE 9 + CHOOSE i \in 1..6 : LowerCase[i] = ToLower(c)

\* s holds word at index i, in letters of either case.
MatchNoCase(s, word, i) ==
  /\ i + Len(word) - 1 <= Len(s)
  /\ \A k \in 1..Len(word) : ToLower(s[i + k - 1]) = word[k]

RECURSIVE HexRun(_, _)
HexRun(s, i) ==
  IF i <= Len(s) /\ IsHexDigit(s[i]) THEN 1 + HexRun(s, i + 1) ELSE 0

\* The characters of the n-char-sequence of "nan(...)".
RECURSIVE NCharRun(_, _)
NCharRun(s, i) ==
  IF i <= Len(s) /\ (IsDigit(s[i]) \/ IsAlpha(s[i]) \/ s[i] = "_")
  THEN 1 + NCharRun(s, i + 1) ELSE 0

\* An exponent beyond this one is out of the range of a double whatever
\* the digits it scales; longer exponents are read as this one.
ExponentCap == 1000000000

\* The exponent part at index i, introduced by mark ("e" or "p"): the
\* number of characters it takes, none unless a digit follows, and its
\* value.
ExponentPart(s, i, mark) ==
  IF ~(i <= Len(s) /\ ToLower(s[i]) = mark) THEN [len |-> 0, val |-> 0]
  ELSE
  With([sign \in {IF i + 1 <= Len(s) /\ s[i + 1] \in {"-", "+"} THEN 1 ELSE 0} |->
  With([first \in {i + 1 + sign} |->
  With([nd \in {DigitRun(s, first)} |->
  With([zeros \in {ZeroRun(s, first)} |->
  With([nz \in {IF zeros > nd THEN nd ELSE zeros} |->
  With([n \in {IF nd - nz > 9 THEN ExponentCap
             ELSE DecValue(s, first + nz, nd - nz)} |->
  IF nd = 0 THEN [len |-> 0, val |-> 0]
  ELSE [len |-> 1 + sign + nd,
        val |-> IF sign = 1 /\ s[i + 1] = "-" THEN 0 - n ELSE n]])])])])])])

RECURSIVE LeadingZeros(_, _)
LeadingZeros(d, i) ==
  IF i <= Len(d) /\ d[i] = 0 THEN 1 + LeadingZeros(d, i + 1) ELSE 0

\* The digit sequences a and lim read as 0.a1a2... and 0.l1l2...: -1, 0 or
\* 1 as the first is below, equal to or above the second.
CompareDigits(a, lim) ==
  With([n \in {IF Len(a) > Len(lim) THEN Len(a) ELSE Len(lim)} |->
  With([differ \in {{k \in 1..n : (IF k <= Len(a) THEN a[k] ELSE 0)
                                  # (IF k <= Len(lim) THEN lim[k] ELSE 0)}} |->
  IF differ = {} THEN 0
  ELSE With([k \in {CHOOSE j \in differ : \A m \in differ : j <= m} |->
       IF k <= Len(a) /\ (k > Len(lim) \/ a[k] > lim[k]) THEN 1 ELSE 0 - 1])])])

\* The decimal digits of 2^1024 - 2^970, the least value that rounds to
\* infinity: it is 0.d1d2... * 10^309.
OverflowDigits ==
  <<1, 7, 9, 7, 6, 9, 3, 1, 3, 4, 8, 6, 2, 3, 1, 5, 8, 0, 7, 9, 3, 7, 2, 8,
    9, 7, 1, 4, 0, 5, 3, 0, 3, 4, 1, 5, 0, 7, 9, 9, 3, 4, 1, 3, 2, 7, 1, 0,
    0, 3, 7, 8, 2, 6, 9, 3, 6, 1, 7, 3, 7, 7, 8, 9, 8, 0, 4, 4, 4, 9, 6, 8,
    2, 9, 2, 7, 6, 4, 7, 5, 0, 9, 4, 6, 6, 4, 9, 0, 1, 7, 9, 7, 7, 5, 8, 7,
    2, 0, 7, 0, 9, 6, 3, 3, 0, 2, 8, 6, 4, 1, 6, 6, 9, 2, 8, 8, 7, 9, 1, 0,
    9, 4, 6, 5, 5, 5, 5, 4, 7, 8, 5, 1, 9, 4, 0, 4, 0, 2, 6, 3, 0, 6, 5, 7,
    4, 8, 8, 6, 7, 1, 5, 0, 5, 8, 2, 0, 6, 8, 1, 9, 0, 8, 9, 0, 2, 0, 0, 0,
    7, 0, 8, 3, 8, 3, 6, 7, 6, 2, 7, 3, 8, 5, 4, 8, 4, 5, 8, 1, 7, 7, 1, 1,
    5, 3, 1, 7, 6, 4, 4, 7, 5, 7, 3, 0, 2, 7, 0, 0, 6, 9, 8, 5, 5, 5, 7, 1,
    3, 6, 6, 9, 5, 9, 6, 2, 2, 8, 4, 2, 9, 1, 4, 8, 1, 9, 8, 6, 0, 8, 3, 4,
    9, 3, 6, 4, 7, 5, 2, 9, 2, 7, 1, 9, 0, 7, 4, 1, 6, 8, 4, 4, 4, 3, 6, 5,
    5, 1, 0, 7, 0, 4, 3, 4, 2, 7, 1, 1, 5, 5, 9, 6, 9, 9, 5, 0, 8, 0, 9, 3,
    0, 4, 2, 8, 8, 0, 1, 7, 7, 9, 0, 4, 1, 7, 4, 4, 9, 7, 7, 9, 2>>

\* The significant decimal digits of 2^-1022 - 2^-1076, the least value
\* that rounds to a normal double: it is 0.d1d2... * 10^-307.
NormalDigits ==
  <<2, 2, 2, 5, 0, 7, 3, 8, 5, 8, 5, 0, 7, 2, 0, 1, 2, 5, 9, 5, 7, 3, 8, 2,
    1, 2, 5, 7, 0, 2, 0, 7, 6, 8, 0, 2, 0, 0, 7, 7, 0, 1, 7, 7, 6, 3, 4, 0,
    6, 9, 8, 8, 7, 3, 9, 2, 8, 8, 3, 7, 6, 7, 6, 3, 3, 0, 6, 0, 1, 3, 3, 2,
    8, 4, 1, 7, 4, 9, 7, 5, 7, 0, 6, 8, 5, 4, 0, 6, 3, 4, 1, 4, 6, 0, 3, 2,
    3, 0, 5, 4, 2, 3, 9, 1, 0, 8, 2, 4, 9, 3, 2, 2, 0, 3, 7, 7, 1, 6, 0, 5,
    6, 0, 1, 1, 2, 6, 0, 3, 0, 0, 1, 2, 4, 0, 2, 7, 3, 7, 7, 1, 9, 1, 8, 3,
    4, 7, 9, 6, 3, 9, 2, 7, 6, 9, 7, 2, 1, 4, 3, 7, 0, 7, 8, 9, 9, 0, 8, 3,
    6, 5, 3, 2, 7, 9, 8, 9, 0, 4, 4, 3, 1, 8, 4, 9, 8, 6, 4, 7, 3, 2, 5, 0,
    4, 1, 1, 0, 4, 6, 7, 2, 7, 3, 0, 8, 4, 6, 9, 6, 9, 7, 7, 8, 1, 2, 0, 2,
    8, 7, 1, 6, 2, 3, 6, 5, 5, 6, 9, 6, 7, 9, 3, 5, 8, 9, 5, 6, 5, 7, 3, 5,
    1, 8, 6, 8, 2, 0, 2, 7, 8, 8, 7, 2, 2, 4, 9, 4, 8, 1, 1, 5, 3, 0, 1, 5,
    1, 3, 1, 7, 6, 1, 6, 3, 6, 6, 3, 3, 3, 2, 9, 6, 9, 4, 5, 9, 5, 3, 4, 3,
    1, 3, 6, 9, 2, 2, 2, 1, 9, 0, 3, 0, 8, 0, 5, 3, 7, 8, 7, 6, 9, 4, 9, 4,
    0, 4, 1, 1, 7, 4, 3, 7, 0, 7, 8, 0, 9, 8, 2, 2, 5, 8, 0, 7, 4, 0, 9, 8,
    8, 8, 8, 0, 5, 5, 1, 6, 1, 7, 9, 0, 7, 1, 1, 9, 0, 0, 2, 1, 4, 8, 7, 5,
    9, 4, 0, 1, 9, 1, 5, 8, 9, 2, 1, 5, 1, 4, 8, 2, 0, 8, 1, 9, 2, 4, 8, 9,
    0, 2, 6, 3, 3, 1, 2, 7, 0, 2, 2, 5, 7, 3, 2, 1, 1, 8, 4, 7, 5, 0, 7, 7,
    1, 8, 6, 1, 4, 5, 2, 2, 2, 4, 0, 9, 6, 2, 1, 2, 6, 3, 1, 6, 9, 8, 6, 2,
    3, 6, 3, 8, 7, 7, 6, 8, 6, 0, 1, 4, 1, 8, 3, 8, 0, 6, 1, 1, 6, 5, 7, 0,
    2, 2, 6, 3, 7, 7, 6, 6, 4, 0, 9, 0, 7, 6, 4, 8, 1, 9, 4, 4, 3, 5, 5, 3,
    6, 0, 5, 4, 3, 3, 6, 3, 7, 3, 7, 2, 7, 9, 7, 8, 0, 1, 4, 5, 9, 3, 1, 0,
    0, 6, 7, 8, 6, 6, 0, 4, 9, 2, 1, 1, 7, 5, 1, 6, 7, 8, 4, 9, 0, 8, 5, 2,
    1, 5, 1, 1, 1, 5, 9, 7, 6, 7, 3, 7, 3, 3, 2, 3, 3, 3, 9, 1, 9, 1, 9, 8,
    3, 2, 2, 1, 3, 2, 6, 8, 5, 3, 5, 1, 9, 1, 2, 8, 3, 3, 8, 7, 8, 4, 8, 9,
    1, 9, 1, 3, 3, 8, 0, 7, 1, 5, 5, 3, 2, 8, 4, 0, 9, 7, 1, 0, 0, 3, 8, 7,
    8, 9, 9, 3, 6, 2, 7, 2, 4, 0, 6, 8, 6, 7, 2, 6, 6, 6, 3, 3, 9, 7, 6, 0,
    9, 1, 4, 9, 8, 3, 4, 3, 4, 9, 8, 3, 1, 3, 4, 4, 8, 7, 9, 6, 7, 6, 6, 5,
    3, 4, 6, 9, 0, 9, 1, 5, 5, 9, 1, 3, 0, 1, 8, 9, 8, 9, 9, 1, 1, 4, 5, 2,
    1, 1, 2, 4, 7, 8, 2, 3, 8, 0, 5, 4, 7, 3, 4, 1, 0, 0, 9, 7, 7, 5, 5, 9,
    0, 6, 7, 6, 0, 9, 6, 2, 9, 1, 5, 8, 5, 9, 4, 9, 6, 9, 7, 7, 4, 3, 0, 1,
    8, 9, 3, 0, 8, 1, 1, 3, 8, 5, 8, 6, 9, 2, 7, 2, 8, 1, 1, 5, 3, 2, 9, 3,
    7, 3, 3, 9, 5, 0, 7, 0, 4, 3, 3, 6, 1, 6, 6, 3, 8, 1, 8, 3, 5, 9, 3, 7,
    5>>

\* The value of the digits d, below 2^31.
RECURSIVE DigitsValue(_, _)
DigitsValue(d, n) ==
  IF n = 0 THEN 0 ELSE DigitsValue(d, n - 1) * 10 + d[n]

RECURSIVE BitsValue(_, _)
BitsValue(b, n) ==
  IF n = 0 THEN 0 ELSE BitsValue(b, n - 1) * 2 + b[n]

RECURSIVE BitLen(_)
BitLen(n) == IF n = 0 THEN 0 ELSE 1 + BitLen(n \div 2)

\* The first k binary digits of the decimal fraction 0.f1f2... are all
\* ones: doubling the fraction carries out a one, k times over.
RECURSIVE FractionOnes(_, _)
FractionOnes(f, k) ==
  IF k = 0 THEN TRUE
  ELSE IF f = <<>> \/ f[1] < 5 THEN FALSE
  ELSE FractionOnes(SubSeq([i \in 1..Len(f) |->
                              ((2 * f[i]) % 10)
                              + (IF i < Len(f) /\ f[i + 1] >= 5 THEN 1 ELSE 0)],
                           1, Len(f)),
                    k - 1)

\* The k bits of b from index from on are all ones.
BitsOnes(b, from, k) ==
  \A j \in from..(from + k - 1) : j <= Len(b) /\ b[j] = 1

\* What strtod leaves unconverted.
NoDouble ==
  [ok |-> FALSE, sz |-> 0, cls |-> "none", neg |-> FALSE, mag |-> 0,
   big |-> "no"]

\* A double that is not a finite number.
NonFinite(len, cls, neg) ==
  [ok |-> TRUE, sz |-> len, cls |-> cls, neg |-> neg, mag |-> 0, big |-> "no"]

\* A finite double.  mag is its magnitude rounded to 53 bits and then
\* truncated to an integer, when that is below 2^31; big tells a magnitude
\* that truncates to 2^31 exactly ("min") from a larger one ("yes").
\* int is the integer part of the text, intBig its size, ones whether the
\* fraction's first 54 - BitLen(int) binary digits are ones, which is when
\* the nearest double is the next integer.
Finite(len, neg, int, intBig, ones) ==
  [ok |-> TRUE, sz |-> len, cls |-> "finite", neg |-> neg,
   mag |-> IF intBig # "no" THEN 0
           ELSE IF ~ones THEN int
           ELSE IF int = IntMax THEN 0 ELSE int + 1,
   big |-> IF intBig = "yes" THEN "yes"
           ELSE IF intBig = "min" THEN (IF ones THEN "yes" ELSE "min")
           ELSE IF ones /\ int = IntMax THEN "min" ELSE "no"]

\* The decimal numeral at index i: digits with an optional point and an
\* optional exponent.
DecimalNumeral(s, i, neg) ==
  With([ni \in {DigitRun(s, i)} |->
  With([hasPoint \in {i + ni <= Len(s) /\ s[i + ni] = "."} |->
  With([nf \in {IF hasPoint THEN DigitRun(s, i + ni + 1) ELSE 0} |->
  IF ni + nf = 0 THEN NoDouble
  ELSE
  With([mantEnd \in {i + ni + (IF hasPoint THEN 1 + nf ELSE 0)} |->
  With([exp \in {ExponentPart(s, mantEnd, "e")} |->
  With([len \in {mantEnd - 1 + exp.len} |->
  With([d \in {SubSeq([k \in 1..(ni + nf) |->
                         DigitVal(s[IF k <= ni THEN i + k - 1 ELSE i + k])],
                      1, ni + nf)} |->
  With([lz \in {LeadingZeros(d, 1)} |->
  IF lz = Len(d) THEN Finite(len, neg, 0, "no", FALSE)
  ELSE
  With([sig \in {SubSeq(d, lz + 1, Len(d))} |->
  With([p \in {ni - lz + exp.val} |->
  IF \/ p > 309
     \/ (p = 309 /\ CompareDigits(sig, OverflowDigits) >= 0)
     \/ p < 0 - 307
     \/ (p = 0 - 307 /\ CompareDigits(sig, NormalDigits) < 0)
  THEN NoDouble
  ELSE IF p <= 0
  THEN Finite(len, neg, 0, "no",
              FractionOnes(SubSeq([k \in 1..(Len(sig) - p) |->
                                     IF k <= 0 - p THEN 0 ELSE sig[k + p]],
                                  1, Len(sig) - p), 54))
  ELSE IF p > 10 THEN Finite(len, neg, 0, "yes", FALSE)
  ELSE
  With([int \in {SubSeq([k \in 1..p |-> IF k <= Len(sig) THEN sig[k] ELSE 0],
                        1, p)} |->
  With([frac \in {SubSeq(sig, p + 1, Len(sig))} |->
  With([cmp \in {IF p < 10 THEN 0 - 1
               ELSE CompareDigits(int, <<2, 1, 4, 7, 4, 8, 3, 6, 4, 8>>)} |->
  IF cmp > 0 THEN Finite(len, neg, 0, "yes", FALSE)
  ELSE IF cmp = 0 THEN Finite(len, neg, 0, "min", FractionOnes(frac, 22))
  ELSE With([n \in {DigitsValue(int, p)} |->
       Finite(len, neg, n, "no", FractionOnes(frac, 54 - BitLen(n)))])
  ])])])])])])])])])])])])])

\* The number of hexadecimal digits of the mantissa at index i, around an
\* optional point.  Without one, "0x" is the numeral 0 followed by an x.
HexMantissa(s, i) ==
  With([hi \in {HexRun(s, i)} |->
  hi + (IF i + hi <= Len(s) /\ s[i + hi] = "." THEN HexRun(s, i + hi + 1) ELSE 0)])

\* The hexadecimal numeral whose "0x" is at index i: hexadecimal digits
\* with an optional point and an optional binary exponent.
HexNumeral(s, i, neg) ==
  With([hi \in {HexRun(s, i + 2)} |->
  With([hasPoint \in {i + 2 + hi <= Len(s) /\ s[i + 2 + hi] = "."} |->
  With([hf \in {IF hasPoint THEN HexRun(s, i + 3 + hi) ELSE 0} |->
  IF hi + hf = 0 THEN NoDouble
  ELSE
  With([mantEnd \in {i + 2 + hi + (IF hasPoint THEN 1 + hf ELSE 0)} |->
  With([exp \in {ExponentPart(s, mantEnd, "p")} |->
  With([len \in {mantEnd - 1 + exp.len} |->
  With([b \in {SubSeq([k \in 1..(4 * (hi + hf)) |->
      With([h \in {HexVal(s[IF (k - 1) \div 4 < hi THEN i + 2 + ((k - 1) \div 4)
                           ELSE i + 3 + ((k - 1) \div 4)])} |->
      (h \div (2^(3 - ((k - 1) % 4)))) % 2])], 1, 4 * (hi + hf))} |->
  With([lz \in {LeadingZeros(b, 1)} |->
  IF lz = Len(b) THEN Finite(len, neg, 0, "no", FALSE)
  ELSE
  With([sig \in {SubSeq(b, lz + 1, Len(b))} |->
  With([t \in {4 * hi - lz - 1 + exp.val} |->
  With([last \in {CHOOSE j \in 1..Len(sig) :
                    sig[j] = 1 /\ \A m \in (j + 1)..Len(sig) : sig[m] = 0} |->
  IF \/ t >= 1024
     \/ (t = 1023 /\ BitsOnes(sig, 1, 54))
     \/ (/\ t < 0 - 1022
         /\ ~(t = 0 - 1023 /\ BitsOnes(sig, 1, 54))
         /\ t - (last - 1) < 0 - 1074)
  THEN NoDouble
  ELSE IF t < 0
  THEN Finite(len, neg, 0, "no", t = 0 - 1 /\ BitsOnes(sig, 1, 54))
  ELSE IF t + 1 > 32 THEN Finite(len, neg, 0, "yes", FALSE)
  ELSE IF t + 1 = 32
  THEN IF \E j \in 2..32 : j <= Len(sig) /\ sig[j] = 1
       THEN Finite(len, neg, 0, "yes", FALSE)
       ELSE Finite(len, neg, 0, "min", BitsOnes(sig, 33, 22))
  ELSE Finite(len, neg,
              BitsValue(SubSeq([k \in 1..(t + 1) |->
                                  IF k <= Len(sig) THEN sig[k] ELSE 0], 1, t + 1),
                        t + 1),
              "no", BitsOnes(sig, t + 2, 53 - t))
  ])])])])])])])])])])])

\* strtod in the "C" locale, as std::stod calls it: blanks, a sign, then
\* a decimal or hexadecimal numeral, "inf", "infinity" or "nan" with an
\* optional "(n-char-sequence)".  ok is FALSE where std::stod throws: no
\* conversion (std::invalid_argument), or a value that overflows or that
\* is smaller than the least normal double and not exactly a double
\* (ERANGE, std::out_of_range).  A decimal numeral of fewer than 713
\* significant digits is never exactly a subnormal; the numerals read here
\* are shorter.
stod(s) ==
  With([ws \in {SpaceRun(s, 1)} |->
  With([sign \in {IF ws + 1 <= Len(s) /\ s[ws + 1] \in {"-", "+"} THEN 1 ELSE 0} |->
  With([neg \in {sign = 1 /\ s[ws + 1] = "-"} |->
  With([i \in {ws + sign + 1} |->
  IF \/ DigitRun(s, i) > 0
     \/ (i <= Len(s) /\ s[i] = "." /\ DigitRun(s, i + 1) > 0)
  THEN IF /\ i + 1 <= Len(s) /\ s[i] = "0" /\ ToLower(s[i + 1]) = "x"
          /\ HexMantissa(s, i + 2) > 0
       THEN HexNumeral(s, i, neg)
       ELSE DecimalNumeral(s, i, neg)
  ELSE IF MatchNoCase(s, <<"i", "n", "f", "i", "n", "i", "t", "y">>, i)
  THEN NonFinite(i + 7, "inf", neg)
  ELSE IF MatchNoCase(s, <<"i", "n", "f">>, i)
  THEN NonFinite(i + 2, "inf", neg)
  ELSE IF MatchNoCase(s, <<"n", "a", "n">>, i)
  THEN With([n \in {NCharRun(s, i + 4)} |->
       IF /\ i + 3 <= Len(s) /\ s[i + 3] = "("
          /\ i + 4 + n <= Len(s) /\ s[i + 4 + n] = ")"
       THEN NonFinite(i + 4 + n, "nan", neg)
       ELSE NonFinite(i + 2, "nan", neg)])
  ELSE NoDouble])])])])

\* Whether std::stod returns.
stodOk(s) == stod(s).ok

\* std::to_string(int).
NatString(n) ==
  IF n < 10 THEN <<Digits[n + 1]>>
  ELSE With([k \in {CHOOSE d \in 2..10 : d = 10 \/ n < 10^d} |->
       [i \in 1..k |-> Digits[((n \div 10^(k - i)) % 10) + 1]]])

to_string(n) == IF n < 0 THEN <<"-">> \o NatString(0 - n) ELSE NatString(n)

(***************************************************************************)
(* The literal keywords of the grammar, as character sequences.            *)
(***************************************************************************)
kw_RNDF_name == <<"R", "N", "D", "F", "_", "n", "a", "m", "e">>
kw_num_segments == <<"n", "u", "m", "_", "s", "e", "g", "m", "e", "n", "t", "s">>
kw_num_zones == <<"n", "u", "m", "_", "z", "o", "n", "e", "s">>
kw_format_version == <<"f", "o", "r", "m", "a", "t", "_", "v", "e", "r", "s", "i", "o", "n">>
kw_creation_date == <<"c", "r", "e", "a", "t", "i", "o", "n", "_", "d", "a", "t", "e">>
kw_segment == <<"s", "e", "g", "m", "e", "n", "t">>
kw_num_lanes == <<"n", "u", "m", "_", "l", "a", "n", "e", "s">>
kw_segment_name == <<"s", "e", "g", "m", "e", "n", "t", "_", "n", "a", "m", "e">>
kw_end_segment == <<"e", "n", "d", "_", "s", "e", "g", "m", "e", "n", "t">>
kw_lane == <<"l", "a", "n", "e">>
kw_num_waypoints == <<"n", "u", "m", "_", "w", "a", "y", "p", "o", "i", "n", "t", "s">>
kw_lane_width == <<"l", "a", "n", "e", "_", "w", "i", "d", "t", "h">>
kw_left_boundary == <<"l", "e", "f", "t", "_", "b", "o", "u", "n", "d", "a", "r", "y">>
kw_right_boundary == <<"r", "i", "g", "h", "t", "_", "b", "o", "u", "n", "d", "a", "r", "y">>
kw_double_yellow == <<"d", "o", "u", "b", "l", "e", "_", "y", "e", "l", "l", "o", "w">>
kw_solid_yellow == <<"s", "o", "l", "i", "d", "_", "y", "e", "l", "l", "o", "w">>
kw_solid_white == <<"s", "o", "l", "i", "d", "_", "w", "h", "i", "t", "e">>
kw_broken_white == <<"b", "r", "o", "k", "e", "n", "_", "w", "h", "i", "t", "e">>
kw_checkpoint == <<"c", "h", "e", "c", "k", "p", "o", "i", "n", "t">>
kw_stop == <<"s", "t", "o", "p">>
kw_exit == <<"e", "x", "i", "t">>
kw_end_lane == <<"e", "n", "d", "_", "l", "a", "n", "e">>
kw_zone == <<"z", "o", "n", "e">>
kw_num_spots == <<"n", "u", "m", "_", "s", "p", "o", "t", "s">>
kw_zone_name == <<"z", "o", "n", "e", "_", "n", "a", "m", "e">>
kw_perimeter == <<"p", "e", "r", "i", "m", "e", "t", "e", "r">>
kw_num_perimeterpoints ==
  <<"n", "u", "m", "_", "p", "e", "r", "i", "m", "e", "t", "e", "r", "p", "o", "i", "n", "t", "s">>
kw_end_perimeter == <<"e", "n", "d", "_", "p", "e", "r", "i", "m", "e", "t", "e", "r">>
kw_spot == <<"s", "p", "o", "t">>
kw_spot_width == <<"s", "p", "o", "t", "_", "w", "i", "d", "t", "h">>
kw_end_spot == <<"e", "n", "d", "_", "s", "p", "o", "t">>
kw_end_zone == <<"e", "n", "d", "_", "z", "o", "n", "e">>
kw_end_file == <<"e", "n", "d", "_", "f", "i", "l", "e">>

SP == <<" ">>

DOT == <<".">>

\* The largest value the typed field parsers accept.
MaxFieldValue == 32768

(***************************************************************************)
(* The input stream.  A cursor holds the std::ifstream state the readers   *)
(* depend on (pos: number of physical lines consumed, eof and fail: the    *)
(* eofbit and the failbit) together with the caller's line counter, which  *)
(* every reader takes by reference.  hdr is a history of the header scans  *)
(* that returned success (it is not program state; it records what each    *)
(* scan did), and reads is the history of the physical lines std::getline  *)
(* has extracted, by their number in the file.                             *)
(***************************************************************************)

NewCursor(lineNumber) ==
  [pos |-> 0, eof |-> FALSE, fail |-> FALSE, line |-> lineNumber, hdr |-> <<>>,
   reads |-> <<>>]

\* std::ifstream::tellg: -1 once the stream has failed.
tellg(cur) == IF cur.fail THEN 0 - 1 ELSE cur.pos

\* std::ifstream::seekg: clears the eofbit, then does nothing while the
\* failbit is set.
seekg(cur, oldPos) ==
  IF cur.fail THEN [cur EXCEPT !.eof = FALSE]
  ELSE [cur EXCEPT !.eof = FALSE, !.pos = oldPos]

\* std::getline on a stream whose lines all end with a newline: when the
\* stream is not good nothing is extracted and str is left as it was; at the
\* end of the file str is erased and both eofbit and failbit are set.
getline(file, cur, str) ==
  IF cur.fail \/ cur.eof
  THEN [ok |-> FALSE, cur |-> [cur EXCEPT !.fail = TRUE], str |-> str]
  ELSE IF cur.pos >= Len(file)
  THEN [ok |-> FALSE, cur |-> [cur EXCEPT !.eof = TRUE, !.fail = TRUE], str |-> <<>>]
  ELSE [ok |-> TRUE,
        cur |-> [cur EXCEPT !.pos = @ + 1, !.reads = Append(@, cur.pos + 1)],
        str |-> file[cur.pos + 1]]

\* The while (std::getline(...)) loop: every physical line read increments
\* the counter; the loop stops at the first line that is not empty after
\* trimming, or when the stream is exhausted.
RECURSIVE nextRealLineFrom(_, _, _)
nextRealLineFrom(file, cur, line0) ==
  With([g \in {getline(file, cur, line0)} |->
  IF ~g.ok THEN [cur |-> g.cur, text |-> g.str]
  ELSE With([line \in {trimWhitespaces(g.str)} |->
       With([c2 \in {[g.cur EXCEPT !.line = @ + 1]} |->
       IF line # <<>> THEN [cur |-> c2, text |-> line]
       ELSE nextRealLineFrom(file, c2, line)])])])

\* nextRealLine looking at the line first: it reads to the next real line,
\* puts the stream back and reads again.
nextRealLinePeeking(file, cur) ==
  With([p \in {nextRealLineFrom(file, cur, <<>>)} |->
  nextRealLineFrom(file, [seekg(p.cur, tellg(cur)) EXCEPT !.line = cur.line],
                   <<>>)])

\* nextRealLine called on a freshly declared std::string.
nextRealLine(file, cur) == nextRealLineFrom(file, cur, <<>>)

\* A reader's failure: the cursor as it stands when false is returned (its
\* line counter is the number printed in the diagnostic) and the check that
\* failed.
Failure(cur, why) == [ok |-> FALSE, cur |-> cur, err |-> why]

HasBadChar(tok) == \E i \in 1..Len(tok) : tok[i] \in {"*", "\\"}

parseString(file, delimiter, cur) ==
  With([r \in {nextRealLine(file, cur)} |->
  With([tokens \in {split(r.text, " ")} |->
  IF \/ Len(tokens) # 2
     \/ tokens[1] # delimiter
     \/ HasBadChar(tokens[2])
     \/ Len(tokens[2]) > 128
  THEN Failure(r.cur, "string")
  ELSE [ok |-> TRUE, cur |-> r.cur, value |-> tokens[2]]])])

parseDelimiter(file, delimiter, cur) ==
  IF cur.eof THEN Failure(cur, "eof")
  ELSE With([r \in {nextRealLine(file, cur)} |->
       IF r.text # delimiter
       THEN Failure(r.cur, "delimiter")
       ELSE [ok |-> TRUE, cur |-> r.cur]])

\* The body shared by the integer field parsers: the text after
\* "<delimiter> " must be an integer in lo..MaxFieldValue and nothing else.
parseInteger(lineread, delimiter, lo) ==
  With([rest \in {SubSeq(lineread, Len(delimiter) + 2, Len(lineread))} |->
  With([n \in {stoi(rest)} |->
  IF Find(lineread, delimiter \o SP) # 1 THEN [ok |-> FALSE, value |-> 0]
  ELSE IF ~n.ok THEN [ok |-> FALSE, value |-> 0]
  ELSE IF n.val < lo \/ n.val > MaxFieldValue \/ n.sz # Len(rest)
       THEN [ok |-> FALSE, value |-> n.val]
       ELSE [ok |-> TRUE, value |-> n.val]])])

\* parsePositive(std::ifstream &, ...)
parsePositiveLine(file, delimiter, cur) ==
  With([r \in {nextRealLine(file, cur)} |->
  With([v \in {parseInteger(r.text, delimiter, 1)} |->
  IF ~v.ok THEN Failure(r.cur, "positive")
  ELSE [ok |-> TRUE, cur |-> r.cur, value |-> v.value]])])

\* parseNonNegative(const std::string &, ...)
parseNonNegative(input, delimiter) ==
  parseInteger(trimWhitespaces(input), delimiter, 0)

\* parseNonNegative(std::ifstream &, ...)
parseNonNegativeLine(file, delimiter, cur) ==
  With([r \in {nextRealLine(file, cur)} |->
  With([v \in {parseNonNegative(r.text, delimiter)} |->
  IF ~v.ok THEN Failure(r.cur, "nonnegative")
  ELSE [ok |-> TRUE, cur |-> r.cur, value |-> v.value]])])

\* parsePositive(const std::string &, ...)
parsePositive(input, delimiter) ==
  With([res \in {parseNonNegative(input, delimiter)} |->
  [ok |-> res.ok /\ res.value > 0, value |-> res.value]])

MarkingOf(word) ==
  IF word = kw_double_yellow THEN "DOUBLE_YELLOW"
  ELSE IF word = kw_solid_yellow THEN "SOLID_YELLOW"
  ELSE IF word = kw_solid_white THEN "SOLID_WHITE"
  ELSE IF word = kw_broken_white THEN "BROKEN_WHITE"
  ELSE "UNDEFINED"

parseBoundary(input0) ==
  With([input \in {trimWhitespaces(input0)} |->
  With([hit \in {{k \in {kw_double_yellow, kw_solid_yellow, kw_solid_white, kw_broken_white} :
         \E sd \in {kw_left_boundary, kw_right_boundary} : input = sd \o SP \o k}} |->
  IF hit = {} THEN [ok |-> FALSE, boundary |-> "UNDEFINED"]
  ELSE [ok |-> TRUE, boundary |-> MarkingOf(CHOOSE k \in hit : TRUE)]])])

\* A token that must be an integer in lo..MaxFieldValue with no other character.
FieldInt(tok, lo) ==
  With([n \in {stoi(tok)} |->
  IF n.ok /\ n.val >= lo /\ n.val <= MaxFieldValue /\ n.sz = Len(tok)
  THEN [ok |-> TRUE, value |-> n.val]
  ELSE [ok |-> FALSE, value |-> 0]])

(***************************************************************************)
(* UniqueId, Checkpoint, Exit, Waypoint                                    *)
(***************************************************************************)

\* UniqueId::UniqueId()
DefaultUniqueId == [x |-> 0 - 1, y |-> 0 - 1, z |-> 0 - 1]

SetX(id, x) == IF x > 0 THEN [id EXCEPT !.x = x] ELSE id

SetY(id, y) == IF y >= 0 THEN [id EXCEPT !.y = y] ELSE id

SetZ(id, z) == IF z > 0 THEN [id EXCEPT !.z = z] ELSE id

\* UniqueId::UniqueId(int, int, int)
UniqueId(x, y, z) ==
  IF x <= 0 \/ y < 0 \/ z <= 0 THEN DefaultUniqueId
  ELSE SetZ(SetY(SetX(DefaultUniqueId, x), y), z)

\* UniqueId::operator=
UniqueIdAssign(this, other) == SetZ(SetY(SetX(this, other.x), other.y), other.z)

UniqueIdValid(id) == id.x > 0 /\ id.y >= 0 /\ id.z > 0

\* UniqueId::operator==
UniqueIdEq(a, b) == a.x = b.x /\ a.y = b.y /\ a.z = b.z

\* UniqueId::String(), through operator<<.
UniqueIdString(id) ==
  to_string(id.x) \o DOT \o to_string(id.y) \o DOT \o to_string(id.z)

\* Checkpoint::Checkpoint()
DefaultCheckpoint == [checkpointId |-> 0 - 1, waypointId |-> 0 - 1]

CheckpointValid(cp) == cp.checkpointId > 0 /\ cp.waypointId > 0

parseCheckpoint(input0, segmentId, laneId, checkpoint0) ==
  With([tokens \in {split(trimWhitespaces(input0), " ")} |->
  With([bad \in {[ok |-> FALSE, checkpoint |-> checkpoint0]} |->
  IF Len(tokens) # 3 THEN bad
  ELSE IF tokens[1] # kw_checkpoint THEN bad
  ELSE With([checkpointTokens \in {split(tokens[2], ".")} |->
       IF Len(checkpointTokens) # 3 THEN bad
       ELSE IF checkpointTokens[1] # to_string(segmentId) THEN bad
       ELSE IF checkpointTokens[2] # to_string(laneId) THEN bad
       ELSE With([waypointId \in {FieldInt(checkpointTokens[3], 1)} |->
            With([checkpointId \in {FieldInt(tokens[3], 1)} |->
            IF ~waypointId.ok \/ ~checkpointId.ok THEN bad
            ELSE [ok |-> TRUE,
                  checkpoint |-> [checkpointId |-> checkpointId.value,
                                  waypointId |-> waypointId.value]]])])])])])

parseStop(input0, segmentId, laneId, stop0) ==
  With([tokens \in {split(trimWhitespaces(input0), " ")} |->
  With([bad \in {[ok |-> FALSE, stop |-> stop0]} |->
  IF Len(tokens) # 2 THEN bad
  ELSE IF tokens[1] # kw_stop THEN bad
  ELSE With([waypointTokens \in {split(tokens[2], ".")} |->
       IF Len(waypointTokens) # 3 THEN bad
       ELSE IF waypointTokens[1] # to_string(segmentId) THEN bad
       ELSE IF waypointTokens[2] # to_string(laneId) THEN bad
       ELSE With([z \in {FieldInt(waypointTokens[3], 1)} |->
            IF ~z.ok THEN bad
            ELSE [ok |-> TRUE,
                  stop |-> SetZ(SetY(SetX(stop0, segmentId), laneId), z.value)]])])])])

\* Exit::Exit()
DefaultExit == [exit |-> DefaultUniqueId, entry |-> DefaultUniqueId]

ExitValid(e) == UniqueIdValid(e.exit) /\ UniqueIdValid(e.entry)

\* parseExit storing the exit id as soon as it has read it, before the
\* entry id is looked at.
parseExitExitFirst(input0, segmentId, laneId, exit0) ==
  With([tokens \in {split(trimWhitespaces(input0), " ")} |->
  With([bad \in {[ok |-> FALSE, exit |-> exit0]} |->
  IF Len(tokens) # 3 THEN bad
  ELSE IF tokens[1] # kw_exit THEN bad
  ELSE With([exitTokens \in {split(tokens[2], ".")} |->
       With([entryTokens \in {split(tokens[3], ".")} |->
       IF Len(exitTokens) # 3 THEN bad
       ELSE IF exitTokens[1] # to_string(segmentId) THEN bad
       ELSE IF exitTokens[2] # to_string(laneId) THEN bad
       ELSE With([exitWaypointId \in {FieldInt(exitTokens[3], 1)} |->
            IF ~exitWaypointId.ok THEN bad
            ELSE
            With([exit1 \in {[exit0 EXCEPT !.exit =
                    UniqueIdAssign(exit0.exit,
                      UniqueId(segmentId, laneId, exitWaypointId.value))]} |->
            IF Len(entryTokens) # 3 THEN [ok |-> FALSE, exit |-> exit1]
            ELSE With([x \in {FieldInt(entryTokens[1], 1)} |->
                 With([y \in {FieldInt(entryTokens[2], 0)} |->
                 With([z \in {FieldInt(entryTokens[3], 1)} |->
                 IF ~x.ok \/ ~y.ok \/ ~z.ok THEN [ok |-> FALSE, exit |-> exit1]
                 ELSE [ok |-> TRUE,
                       exit |-> [exit1 EXCEPT !.entry =
                                   UniqueIdAssign(exit0.entry,
                                     UniqueId(x.value, y.value, z.value))]]])])])])])])])])])

parseExit(input0, segmentId, laneId, exit0) ==
  With([tokens \in {split(trimWhitespaces(input0), " ")} |->
  With([bad \in {[ok |-> FALSE, exit |-> exit0]} |->
  IF Len(tokens) # 3 THEN bad
  ELSE IF tokens[1] # kw_exit THEN bad
  ELSE With([exitTokens \in {split(tokens[2], ".")} |->
       With([entryTokens \in {split(tokens[3], ".")} |->
       IF Len(exitTokens) # 3 THEN bad
       ELSE IF exitTokens[1] # to_string(segmentId) THEN bad
       ELSE IF exitTokens[2] # to_string(laneId) THEN bad
       ELSE With([exitWaypointId \in {FieldInt(exitTokens[3], 1)} |->
            IF ~exitWaypointId.ok THEN bad
            ELSE IF Len(entryTokens) # 3 THEN bad
            ELSE With([x \in {FieldInt(entryTokens[1], 1)} |->
                 With([y \in {FieldInt(entryTokens[2], 0)} |->
                 With([z \in {FieldInt(entryTokens[3], 1)} |->
                 IF ~x.ok \/ ~y.ok \/ ~z.ok THEN bad
                 ELSE [ok |-> TRUE,
                       exit |-> [exit |-> UniqueIdAssign(exit0.exit,
                                    UniqueId(segmentId, laneId,
                                             exitWaypointId.value)),
                                 entry |-> UniqueIdAssign(exit0.entry,
                                    UniqueId(x.value, y.value, z.value))]]])])])])])])])])

\* Exit::Load
ExitLoad(this, file, x, y, cur, lineread) ==
  With([r \in {nextRealLineFrom(file, cur, lineread)} |->
  With([e \in {parseExit(r.text, x, y, this)} |->
  [ok |-> e.ok, cur |-> r.cur, exit |-> e.exit, lineread |-> r.text]])])

\* Waypoint::Waypoint(); the location is kept as the text of the two
\* coordinates, none in a waypoint that was not loaded.  The exit flag is
\* the one Waypoint::SetExit writes; a waypoint is constructed without it.
DefaultWaypoint == [id |-> 0 - 1, lat |-> <<>>, lon |-> <<>>, exit |-> FALSE]

WaypointValid(wp) == wp.id > 0

\* Waypoint::SetExit
SetExit(waypoint, isExit) == [waypoint EXCEPT !.exit = isExit]

\* Waypoint::IsExit
IsExit(waypoint) == waypoint.exit

\* Waypoint::Load.  The assert on the token count is compiled out of a
\* release build; the readers below are those of such a build.  std::stod
\* reads the coordinates up to the first character that is not part of a
\* number; what follows it in the token is dropped.
WaypointLoad(file, segmentId, laneId, cur) ==
  With([r \in {nextRealLine(file, cur)} |->
  With([tokens \in {split(r.text, " ")} |->
  IF Len(tokens) < 3 THEN Failure(r.cur, "waypoint")
  ELSE With([waypointIdTokens \in {split(tokens[1], ".")} |->
       IF \/ Len(waypointIdTokens) # 3
          \/ waypointIdTokens[1] # to_string(segmentId)
          \/ waypointIdTokens[2] # to_string(laneId)
       THEN Failure(r.cur, "waypoint")
       ELSE With([latitude \in {stod(tokens[2])} |->
            With([longitude \in {stod(tokens[3])} |->
            With([n \in {stoi(waypointIdTokens[3])} |->
            IF ~latitude.ok \/ ~longitude.ok \/ ~n.ok
            THEN Failure(r.cur, "waypoint")
            ELSE IF \/ n.val <= 0
                    \/ n.val > MaxFieldValue
                    \/ n.sz # Len(waypointIdTokens[3])
            THEN Failure(r.cur, "waypoint")
            ELSE [ok |-> TRUE, cur |-> r.cur,
                  waypoint |-> [DefaultWaypoint EXCEPT
                                  !.id = n.val,
                                  !.lat = SubSeq(tokens[2], 1, latitude.sz),
                                  !.lon = SubSeq(tokens[3], 1, longitude.sz)]]])])])])])])

(***************************************************************************)
(* History of header scans.  Each scan that returns success appends one    *)
(* entry: whether it fetched a line whose leading keyword is not one of    *)
(* the header's options (unrec), the stream position and line counter      *)
(* snapshotted just before the first such line was fetched, and the        *)
(* position and counter it returned with.                                  *)
(***************************************************************************)

NoPeek == [unrec |-> FALSE, pos |-> 0, line |-> 0]

Peek(known, snap, peek) ==
  IF peek.unrec \/ known THEN peek
  ELSE [unrec |-> TRUE, pos |-> snap.pos, line |-> snap.line]

Scanned(cur, scan, peek) ==
  [cur EXCEPT !.hdr = Append(@, [scan |-> scan, unrec |-> peek.unrec,
                                 snapPos |-> peek.pos, snapLine |-> peek.line,
                                 endPos |-> cur.pos, endLine |-> cur.line])]

(***************************************************************************)
(* std::vector.  Every vector of entities is kept with its capacity, in a  *)
(* field named after it (waypoints and waypointsCap).  In a copy           *)
(* assignment, when the source fits in the capacity of the destination,    *)
(* the elements the destination already holds are assigned to with the     *)
(* element's operator=; every other element is copy-constructed.  The      *)
(* capacity grows to the source's size when it is exceeded, and never      *)
(* shrinks.  A vector of int (the stops of a lane) is the same after an    *)
(* assignment whatever its capacity, and is kept without it.               *)
(***************************************************************************)

\* this = other and T(other) for the entity of a kind (defined further down,
\* once the entities are).
RECURSIVE Assign(_, _, _)
RECURSIVE Copy(_, _)

VectorCapacity(cap, src) == IF Len(src) > cap THEN Len(src) ELSE cap

\* std::vector<T>::operator=
VectorAssign(kind, dst, cap, src) ==
  SubSeq([i \in 1..Len(src) |->
            IF Len(src) <= cap /\ i <= Len(dst) THEN Assign(kind, dst[i], src[i])
            ELSE Copy(kind, src[i])], 1, Len(src))

\* this->V() = src, for the vector V of an object, kept in the field v with
\* its capacity in the field vCap.
AssignVector(this, v, vCap, kind, src) ==
  [this EXCEPT ![v] = VectorAssign(kind, this[v], this[vCap], src),
               ![vCap] = VectorCapacity(this[vCap], src)]

\* The capacity of a vector built by n calls of push_back: the storage
\* doubles when it is full.
RECURSIVE GrownCapacity(_)
GrownCapacity(n) ==
  IF n = 0 THEN 0
  ELSE With([cap \in {GrownCapacity(n - 1)} |->
       IF n - 1 < cap THEN cap ELSE IF cap = 0 THEN 1 ELSE 2 * cap])

(***************************************************************************)
(* Lane                                                                    *)
(***************************************************************************)

\* Feet to metres, in units of 1/10000 m (the source multiplies by 0.3048).
FeetToMeters == 3048

\* LaneHeader::LaneHeader() with the flags and locals of LaneHeader::Load.
DefaultLaneHeader ==
  [width |-> 0, leftBoundary |-> "UNDEFINED", rightBoundary |-> "UNDEFINED",
   checkpoints |-> <<>>, stops |-> <<>>, exits |-> <<>>,
   widthFound |-> FALSE, leftBoundaryFound |-> FALSE,
   rightBoundaryFound |-> FALSE]

LaneOptions ==
  {kw_lane_width, kw_left_boundary, kw_right_boundary, kw_checkpoint, kw_stop,
   kw_exit}

\* One iteration of the do-while loop of LaneHeader::Load: a line is read and
\* either stored in the header, or found malformed or repeated, or found not
\* to belong to the header, and then the stream and the line counter go back
\* to where the iteration started.  push_back stores a copy of the
\* checkpoint or of the exit it is given.
LaneHeaderStep(file, segmentId, laneId, cur, h, peek) ==
  With([oldPos \in {tellg(cur)} |->
  With([oldLineNumber \in {cur.line} |->
  With([r \in {nextRealLine(file, cur)} |->
  With([lineread \in {r.text} |->
  With([tokens \in {split(lineread, " ")} |->
  With([pk \in {Peek(Len(tokens) = 0 \/ tokens[1] \in LaneOptions, cur, peek)} |->
  IF \/ Len(tokens) < 2
     \/ tokens[1] = kw_lane_width /\ h.widthFound
     \/ tokens[1] = kw_left_boundary /\ h.leftBoundaryFound
     \/ tokens[1] = kw_right_boundary /\ h.rightBoundaryFound
  THEN Failure(r.cur, "lane header")
  ELSE IF tokens[1] = kw_lane_width
  THEN With([w \in {parseNonNegative(lineread, kw_lane_width)} |->
       IF ~w.ok THEN Failure(r.cur, "lane width")
       ELSE [ok |-> TRUE, more |-> TRUE, cur |-> r.cur, peek |-> pk,
             header |-> [h EXCEPT !.width = w.value * FeetToMeters,
                                  !.widthFound = TRUE]]])
  ELSE IF tokens[1] = kw_left_boundary
  THEN With([b \in {parseBoundary(lineread)} |->
       IF ~b.ok THEN Failure(r.cur, "lane boundary")
       ELSE [ok |-> TRUE, more |-> TRUE, cur |-> r.cur, peek |-> pk,
             header |-> [h EXCEPT !.leftBoundary = b.boundary,
                                  !.leftBoundaryFound = TRUE]]])
  ELSE IF tokens[1] = kw_right_boundary
  THEN With([b \in {parseBoundary(lineread)} |->
       IF ~b.ok THEN Failure(r.cur, "lane boundary")
       ELSE [ok |-> TRUE, more |-> TRUE, cur |-> r.cur, peek |-> pk,
             header |-> [h EXCEPT !.rightBoundary = b.boundary,
                                  !.rightBoundaryFound = TRUE]]])
  ELSE IF tokens[1] = kw_checkpoint
  THEN With([c \in {parseCheckpoint(lineread, segmentId, laneId, DefaultCheckpoint)} |->
       IF ~c.ok THEN Failure(r.cur, "lane checkpoint")
       ELSE [ok |-> TRUE, more |-> TRUE, cur |-> r.cur, peek |-> pk,
             header |-> [h EXCEPT !.checkpoints =
                                    Append(@, Copy("checkpoint", c.checkpoint))]]])
  ELSE IF tokens[1] = kw_stop
  THEN With([st \in {parseStop(lineread, segmentId, laneId, DefaultUniqueId)} |->
       IF ~st.ok THEN Failure(r.cur, "lane stop")
       ELSE [ok |-> TRUE, more |-> TRUE, cur |-> r.cur, peek |-> pk,
             header |-> [h EXCEPT !.stops = Append(@, st.stop.z)]]])
  ELSE IF tokens[1] = kw_exit
  THEN With([e \in {parseExit(lineread, segmentId, laneId, DefaultExit)} |->
       IF ~e.ok THEN Failure(r.cur, "lane exit")
       ELSE [ok |-> TRUE, more |-> TRUE, cur |-> r.cur, peek |-> pk,
             header |-> [h EXCEPT !.exits = Append(@, Copy("exit", e.exit))]]])
  ELSE [ok |-> TRUE, more |-> FALSE, peek |-> pk,
        cur |-> Scanned([seekg(r.cur, oldPos) EXCEPT !.line = oldLineNumber],
                        "lane", pk),
        header |-> h]])])])])])])

\* The do-while loop of LaneHeader::Load: it runs until an iteration fails or
\* meets a line that is not part of the header.
RECURSIVE LaneHeaderLoop(_, _, _, _)
\* The loop with the grammar's order built in: once left_boundary has been
\* met, lane_width counts as already given.
LaneHeaderLoopWidthFirst(file, segmentId, laneId, s) ==
  IF ~s.ok THEN s
  ELSE IF ~s.more THEN s
  ELSE LaneHeaderLoop(file, segmentId, laneId,
         LaneHeaderStep(file, segmentId, laneId, s.cur,
           [s.header EXCEPT !.widthFound = @ \/ s.header.leftBoundaryFound],
           s.peek))

LaneHeaderLoop(file, segmentId, laneId, s) ==
  IF ~s.ok THEN s
  ELSE IF ~s.more THEN s
  ELSE LaneHeaderLoop(file, segmentId, laneId,
         LaneHeaderStep(file, segmentId, laneId, s.cur, s.header, s.peek))

\* LaneHeader::Load on a freshly constructed header, as Lane::Load calls
\* it: the vectors the loop has filled are assigned to the empty vectors of
\* the header, which copies every element.
LaneHeaderLoad(file, segmentId, laneId, cur) ==
  With([l \in {LaneHeaderLoop(file, segmentId, laneId,
                 [ok |-> TRUE, more |-> TRUE, cur |-> cur, peek |-> NoPeek,
                  header |-> DefaultLaneHeader])} |->
  IF ~l.ok THEN l
  ELSE [l EXCEPT
          !.header.checkpoints = VectorAssign("checkpoint", <<>>, 0, @),
          !.header.exits = VectorAssign("exit", <<>>, 0, @)]])

\* Lane::Lane()
DefaultLane ==
  [id |-> 0 - 1, waypoints |-> <<>>, waypointsCap |-> 0, width |-> 0,
   leftBoundary |-> "UNDEFINED", rightBoundary |-> "UNDEFINED",
   checkpoints |-> <<>>, checkpointsCap |-> 0, stops |-> <<>>,
   exits |-> <<>>, exitsCap |-> 0]

\* The waypoint loop that stops at the first line that is no waypoint.
RECURSIVE LoadWaypointsAvailable(_, _, _, _, _, _, _)
LoadWaypointsAvailable(file, x, y, cur, i, n, waypoints) ==
  IF i >= n THEN [ok |-> TRUE, cur |-> cur, waypoints |-> waypoints]
  ELSE With([w \in {WaypointLoad(file, x, y, cur)} |->
       IF ~w.ok THEN [ok |-> TRUE, cur |-> cur, waypoints |-> waypoints]
       ELSE IF w.waypoint.id # i + 1 THEN Failure(w.cur, "waypoint id")
       ELSE LoadWaypointsAvailable(file, x, y, w.cur, i + 1, n,
                                   Append(waypoints, Copy("waypoint", w.waypoint)))])

\* The waypoint loops of Lane::Load and ParkingSpot::Load:
\* waypoint i (0-based) must carry id i + 1.
RECURSIVE LoadWaypoints(_, _, _, _, _, _, _)
LoadWaypoints(file, x, y, cur, i, n, waypoints) ==
  IF i >= n THEN [ok |-> TRUE, cur |-> cur, waypoints |-> waypoints]
  ELSE With([w \in {WaypointLoad(file, x, y, cur)} |->
       IF ~w.ok THEN w
       ELSE IF w.waypoint.id # i + 1 THEN Failure(w.cur, "waypoint id")
       ELSE LoadWaypoints(file, x, y, w.cur, i + 1, n,
                          Append(waypoints, Copy("waypoint", w.waypoint)))])

\* Lane::Load
LaneLoad(this, file, segmentId, cur) ==
  With([r \in {nextRealLine(file, cur)} |->
  With([tokens \in {split(r.text, " ")} |->
  IF Len(tokens) # 2 THEN Failure(r.cur, "lane")
  ELSE IF tokens[1] # kw_lane THEN Failure(r.cur, "lane")
  ELSE
  With([laneIdTokens \in {split(tokens[2], ".")} |->
  IF Len(laneIdTokens) # 2 THEN Failure(r.cur, "lane")
  ELSE IF laneIdTokens[1] # to_string(segmentId) THEN Failure(r.cur, "lane")
  ELSE
  With([laneId \in {FieldInt(laneIdTokens[2], 1)} |->
  IF ~laneId.ok THEN Failure(r.cur, "lane")
  ELSE
  With([numWaypoints \in {parsePositiveLine(file, kw_num_waypoints, r.cur)} |->
  IF ~numWaypoints.ok THEN numWaypoints
  ELSE
  With([header \in {LaneHeaderLoad(file, segmentId, laneId.value, numWaypoints.cur)} |->
  IF ~header.ok THEN header
  ELSE
  With([wps \in {LoadWaypoints(file, segmentId, laneId.value, header.cur, 0,
                    numWaypoints.value, <<>>)} |->
  IF ~wps.ok THEN wps
  ELSE
  With([d \in {parseDelimiter(file, kw_end_lane, wps.cur)} |->
  IF ~d.ok THEN d
  ELSE [ok |-> TRUE, cur |-> d.cur,
        lane |-> AssignVector(AssignVector(AssignVector(
                   [this EXCEPT !.id = laneId.value,
                                !.width = header.header.width,
                                !.leftBoundary = header.header.leftBoundary,
                                !.rightBoundary = header.header.rightBoundary,
                                !.stops = header.header.stops],
                   "waypoints", "waypointsCap", "waypoint", wps.waypoints),
                   "checkpoints", "checkpointsCap", "checkpoint",
                   header.header.checkpoints),
                   "exits", "exitsCap", "exit", header.header.exits)]])])])])])])])])

\* Lane::Valid
LaneValid(l) ==
  /\ l.id > 0
  /\ Len(l.waypoints) > 0
  /\ \A i \in 1..Len(l.waypoints) :
       WaypointValid(l.waypoints[i]) /\ l.waypoints[i].id = i
  /\ \A i \in 1..Len(l.checkpoints) : CheckpointValid(l.checkpoints[i])
  /\ \A i \in 1..Len(l.stops) : l.stops[i] > 0
  /\ \A i \in 1..Len(l.exits) : ExitValid(l.exits[i])

(***************************************************************************)
(* Segment                                                                 *)
(***************************************************************************)

\* SegmentHeader::Load
SegmentHeaderLoad(file, segmentId, cur) ==
  With([oldPos \in {tellg(cur)} |->
  With([oldLineNumber \in {cur.line} |->
  With([r \in {nextRealLine(file, cur)} |->
  With([tokens \in {split(r.text, " ")} |->
  With([pk \in {Peek(Len(tokens) = 0 \/ tokens[1] = kw_segment_name, cur, NoPeek)} |->
  IF Len(tokens) = 2 /\ tokens[1] = kw_lane
  THEN [ok |-> TRUE,
        cur |-> Scanned([seekg(r.cur, oldPos) EXCEPT !.line = oldLineNumber],
                        "segment", pk),
        name |-> <<>>]
  ELSE IF Len(tokens) # 2 THEN Failure(r.cur, "segment header")
  ELSE IF tokens[1] # kw_segment_name THEN Failure(r.cur, "segment header")
  ELSE [ok |-> TRUE, cur |-> Scanned(r.cur, "segment", pk),
        name |-> tokens[2]]])])])])])

\* Segment::Segment()
DefaultSegment == [id |-> 0 - 1, lanes |-> <<>>, lanesCap |-> 0, name |-> <<>>]

\* The lane loop of Segment::Load: lane i (0-based) must carry id i + 1.
RECURSIVE LoadLanes(_, _, _, _, _, _)
LoadLanes(file, segmentId, cur, i, numLanes, lanes) ==
  IF i >= numLanes THEN [ok |-> TRUE, cur |-> cur, lanes |-> lanes]
  ELSE With([l \in {LaneLoad(DefaultLane, file, segmentId, cur)} |->
       IF ~l.ok THEN l
       ELSE IF l.lane.id # i + 1 THEN Failure(l.cur, "lane id")
       ELSE LoadLanes(file, segmentId, l.cur, i + 1, numLanes,
                      Append(lanes, Copy("lane", l.lane)))])

\* Segment::Load
SegmentLoad(this, file, cur) ==
  With([segmentId \in {parsePositiveLine(file, kw_segment, cur)} |->
  IF ~segmentId.ok THEN segmentId
  ELSE
  With([numLanes \in {parsePositiveLine(file, kw_num_lanes, segmentId.cur)} |->
  IF ~numLanes.ok THEN numLanes
  ELSE
  With([header \in {SegmentHeaderLoad(file, segmentId.value, numLanes.cur)} |->
  IF ~header.ok THEN header
  ELSE
  With([ls \in {LoadLanes(file, segmentId.value, header.cur, 0, numLanes.value, <<>>)} |->
  IF ~ls.ok THEN ls
  ELSE
  With([d \in {parseDelimiter(file, kw_end_segment, ls.cur)} |->
  IF ~d.ok THEN d
  ELSE [ok |-> TRUE, cur |-> d.cur,
        segment |-> AssignVector([this EXCEPT !.id = segmentId.value,
                                              !.name = header.name],
                                 "lanes", "lanesCap", "lane", ls.lanes)]])])])])])

\* Segment::Valid without its test of the lane ids.
SegmentValidAnyLaneId(sg) ==
  /\ sg.id > 0
  /\ Len(sg.lanes) > 0
  /\ \A i \in 1..Len(sg.lanes) : LaneValid(sg.lanes[i])

\* Segment::Valid
SegmentValid(sg) ==
  /\ sg.id > 0
  /\ Len(sg.lanes) > 0
  /\ \A i \in 1..Len(sg.lanes) : LaneValid(sg.lanes[i]) /\ sg.lanes[i].id = i

(***************************************************************************)
(* ParkingSpot                                                             *)
(***************************************************************************)

\* ParkingSpotHeader::SetWidth: only a positive width is stored.
SpotSetWidth(this, newWidth) ==
  IF newWidth > 0 THEN [this EXCEPT !.width = newWidth] ELSE this

\* Checkpoint::operator=
CheckpointAssign(this, other) ==
  LET c1 == IF other.checkpointId > 0
            THEN [this EXCEPT !.checkpointId = other.checkpointId] ELSE this
  IN IF other.waypointId > 0 THEN [c1 EXCEPT !.waypointId = other.waypointId]
     ELSE c1

\* ParkingSpotHeader::ParkingSpotHeader() with the flags of its Load.
DefaultSpotHeader ==
  [width |-> 0, checkpoint |-> DefaultCheckpoint, widthFound |-> FALSE,
   checkpointFound |-> FALSE]

SpotOptions == {kw_spot_width, kw_checkpoint}

\* The for loop of ParkingSpotHeader::Load (at most two iterations).
RECURSIVE SpotHeaderLoop(_, _, _, _, _, _, _)
SpotHeaderLoop(file, zoneId, spotId, cur, i, h, peek) ==
  IF i >= 2 THEN [ok |-> TRUE, cur |-> Scanned(cur, "spot", peek), header |-> h]
  ELSE
  With([oldPos \in {tellg(cur)} |->
  With([oldLineNumber \in {cur.line} |->
  With([r \in {nextRealLine(file, cur)} |->
  With([lineread \in {r.text} |->
  With([tokens \in {split(lineread, " ")} |->
  With([pk \in {Peek(Len(tokens) = 0 \/ tokens[1] \in SpotOptions, cur, peek)} |->
  IF \/ Len(tokens) < 2
     \/ tokens[1] = kw_spot_width /\ h.widthFound
     \/ tokens[1] = kw_checkpoint /\ h.checkpointFound
  THEN Failure(r.cur, "spot header")
  ELSE IF tokens[1] = kw_spot_width
  THEN With([w \in {parsePositive(lineread, kw_spot_width)} |->
       IF ~w.ok THEN Failure(r.cur, "spot width")
       ELSE SpotHeaderLoop(file, zoneId, spotId, r.cur, i + 1,
              [h EXCEPT !.width = w.value * FeetToMeters,
                        !.widthFound = TRUE], pk)])
  ELSE IF tokens[1] = kw_checkpoint
  THEN With([c \in {parseCheckpoint(lineread, zoneId, spotId, h.checkpoint)} |->
       IF ~c.ok THEN Failure(r.cur, "spot checkpoint")
       ELSE SpotHeaderLoop(file, zoneId, spotId, r.cur, i + 1,
              [h EXCEPT !.checkpoint = c.checkpoint,
                        !.checkpointFound = TRUE], pk)])
  ELSE [ok |-> TRUE,
        cur |-> Scanned([seekg(r.cur, oldPos) EXCEPT !.line = oldLineNumber],
                        "spot", pk),
        header |-> h]])])])])])])

\* ParkingSpotHeader::Load: the parsed width goes through SetWidth and the
\* parsed checkpoint through Checkpoint::operator= on a fresh header.
ParkingSpotHeaderLoad(file, zoneId, spotId, cur) ==
  With([l \in {SpotHeaderLoop(file, zoneId, spotId, cur, 0, DefaultSpotHeader, NoPeek)} |->
  IF ~l.ok THEN l
  ELSE [ok |-> TRUE, cur |-> l.cur,
        header |-> [width |-> SpotSetWidth([width |-> 0], l.header.width).width,
                    checkpoint |-> CheckpointAssign(DefaultCheckpoint,
                                                    l.header.checkpoint)]]])

\* ParkingSpot::ParkingSpot()
DefaultParkingSpot ==
  [id |-> 0 - 1, waypoints |-> <<>>, waypointsCap |-> 0, width |-> 0,
   checkpoint |-> DefaultCheckpoint]

\* ParkingSpot::Load
ParkingSpotLoad(this, file, zoneId, cur) ==
  With([r \in {nextRealLine(file, cur)} |->
  With([tokens \in {split(r.text, " ")} |->
  IF Len(tokens) # 2 THEN Failure(r.cur, "spot")
  ELSE IF tokens[1] # kw_spot THEN Failure(r.cur, "spot")
  ELSE
  With([spotIdTokens \in {split(tokens[2], ".")} |->
  IF Len(spotIdTokens) # 2 THEN Failure(r.cur, "spot")
  ELSE IF spotIdTokens[1] # to_string(zoneId) THEN Failure(r.cur, "spot")
  ELSE
  With([spotId \in {FieldInt(spotIdTokens[2], 1)} |->
  IF ~spotId.ok THEN Failure(r.cur, "spot")
  ELSE
  With([header \in {ParkingSpotHeaderLoad(file, zoneId, spotId.value, r.cur)} |->
  IF ~header.ok THEN header
  ELSE
  With([wps \in {LoadWaypoints(file, zoneId, spotId.value, header.cur, 0, 2, <<>>)} |->
  IF ~wps.ok THEN wps
  ELSE
  With([d \in {parseDelimiter(file, kw_end_spot, wps.cur)} |->
  IF ~d.ok THEN d
  ELSE [ok |-> TRUE, cur |-> d.cur,
        spot |-> [SpotSetWidth(AssignVector([this EXCEPT !.id = spotId.value],
                                            "waypoints", "waypointsCap",
                                            "waypoint", wps.waypoints),
                               header.header.width)
                  EXCEPT !.checkpoint =
                    CheckpointAssign(this.checkpoint,
                                     header.header.checkpoint)]]])])])])])])])

\* ParkingSpot::operator=
ParkingSpotAssign(this, other) ==
  [SpotSetWidth(AssignVector([this EXCEPT !.id = IF other.id > 0 THEN other.id
                                                ELSE @],
                             "waypoints", "waypointsCap", "waypoint",
                             other.waypoints),
                other.width)
   EXCEPT !.checkpoint = CheckpointAssign(this.checkpoint, other.checkpoint)]

\* ParkingSpot::ParkingSpot(const ParkingSpot &)
ParkingSpotCopy(other) == ParkingSpotAssign(DefaultParkingSpot, other)

\* ParkingSpot::Valid
ParkingSpotValid(sp) ==
  /\ sp.id > 0
  /\ Len(sp.waypoints) = 2
  /\ \A i \in 1..Len(sp.waypoints) :
       WaypointValid(sp.waypoints[i]) /\ sp.waypoints[i].id = i

(***************************************************************************)
(* Perimeter                                                               *)
(***************************************************************************)

\* Exit::operator==, over UniqueId::operator==.
ExitEq(a, b) == a.exit = b.exit /\ a.entry = b.entry

\* PerimeterHeader::AddExit
PerimeterAddExit(exits, newExit) ==
  IF ~ExitValid(newExit) THEN exits
  ELSE IF \E i \in 1..Len(exits) : ExitEq(exits[i], newExit) THEN exits
  ELSE Append(exits, Copy("exit", newExit))

\* The while loop of PerimeterHeader::Load; every iteration reads into the
\* same Exit object and the same line buffer.
RECURSIVE PerimeterHeaderLoop(_, _, _, _, _, _, _, _, _)
\* The loop giving the stream back to the snapshot but not the line counter.
PerimeterHeaderLoopCountingPeek(file, zoneId, perimeterId, cur, exit, lineread, exits, old, peek) ==
  With([e \in {ExitLoad(exit, file, zoneId, perimeterId, cur, lineread)} |->
  With([tokens \in {split(e.lineread, " ")} |->
  With([pk \in {Peek(Len(tokens) = 0 \/ tokens[1] = kw_exit, cur, peek)} |->
  IF e.ok
  THEN PerimeterHeaderLoop(file, zoneId, perimeterId, e.cur, e.exit,
         e.lineread, PerimeterAddExit(exits, e.exit),
         [pos |-> tellg(e.cur), line |-> e.cur.line], pk)
  ELSE [ok |-> TRUE,
        cur |-> Scanned(seekg(e.cur, old.pos), "perimeter", pk),
        exits |-> exits]])])])

PerimeterHeaderLoop(file, zoneId, perimeterId, cur, exit, lineread, exits, old, peek) ==
  With([e \in {ExitLoad(exit, file, zoneId, perimeterId, cur, lineread)} |->
  With([tokens \in {split(e.lineread, " ")} |->
  With([pk \in {Peek(Len(tokens) = 0 \/ tokens[1] = kw_exit, cur, peek)} |->
  IF e.ok
  THEN PerimeterHeaderLoop(file, zoneId, perimeterId, e.cur, e.exit,
         e.lineread, PerimeterAddExit(exits, e.exit),
         [pos |-> tellg(e.cur), line |-> e.cur.line], pk)
  ELSE [ok |-> TRUE,
        cur |-> Scanned([seekg(e.cur, old.pos) EXCEPT !.line = old.line],
                        "perimeter", pk),
        exits |-> exits]])])])

\* PerimeterHeader::Load
PerimeterHeaderLoad(file, zoneId, perimeterId, cur) ==
  PerimeterHeaderLoop(file, zoneId, perimeterId, cur, DefaultExit, <<>>, <<>>,
                      [pos |-> tellg(cur), line |-> cur.line], NoPeek)

\* Perimeter::Perimeter()
DefaultPerimeter ==
  [points |-> <<>>, pointsCap |-> 0, exits |-> <<>>, exitsCap |-> 0]

\* The loop over header.Exits() in Perimeter::Load: true as soon as an exit
\* leaves from the point.
RECURSIVE ExitFlag(_, _, _, _)
ExitFlag(zoneId, waypoint, exits, i) ==
  IF i > Len(exits) THEN FALSE
  ELSE IF UniqueIdEq(exits[i].exit, UniqueId(zoneId, 0, waypoint.id)) THEN TRUE
  ELSE ExitFlag(zoneId, waypoint, exits, i + 1)

\* The loop over the points in Perimeter::Load: point i (0-based) must carry
\* id i + 1; the local waypoint is flagged when an exit of the header leaves
\* from it, and push_back stores a copy of it.
RECURSIVE LoadPoints(_, _, _, _, _, _, _)
LoadPoints(file, zoneId, exits, cur, i, numPoints, perimeterPoints) ==
  IF i >= numPoints
  THEN [ok |-> TRUE, cur |-> cur, waypoints |-> perimeterPoints]
  ELSE With([w \in {WaypointLoad(file, zoneId, 0, cur)} |->
       IF ~w.ok THEN w
       ELSE IF w.waypoint.id # i + 1 THEN Failure(w.cur, "waypoint id")
       ELSE With([waypoint \in {IF ExitFlag(zoneId, w.waypoint, exits, 1)
                                THEN SetExit(w.waypoint, TRUE)
                                ELSE w.waypoint} |->
            LoadPoints(file, zoneId, exits, w.cur, i + 1, numPoints,
                       Append(perimeterPoints, Copy("waypoint", waypoint)))])])

\* Perimeter::Load.  The result of the header scan is not looked at.
PerimeterLoad(this, file, zoneId, cur) ==
  With([r \in {nextRealLine(file, cur)} |->
  With([tokens \in {split(r.text, " ")} |->
  IF Len(tokens) # 2 THEN Failure(r.cur, "perimeter")
  ELSE IF tokens[1] # kw_perimeter THEN Failure(r.cur, "perimeter")
  ELSE
  With([perimeterIdTokens \in {split(tokens[2], ".")} |->
  IF \/ Len(perimeterIdTokens) # 2
     \/ perimeterIdTokens[1] # to_string(zoneId)
     \/ perimeterIdTokens[2] # <<"0">>
  THEN Failure(r.cur, "perimeter")
  ELSE
  With([numPoints \in {parsePositiveLine(file, kw_num_perimeterpoints, r.cur)} |->
  IF ~numPoints.ok THEN numPoints
  ELSE
  With([header \in {PerimeterHeaderLoad(file, zoneId, 0, numPoints.cur)} |->
  With([pts \in {LoadPoints(file, zoneId, header.exits, header.cur, 0, numPoints.value, <<>>)} |->
  IF ~pts.ok THEN pts
  ELSE
  With([d \in {parseDelimiter(file, kw_end_perimeter, pts.cur)} |->
  IF ~d.ok THEN d
  ELSE [ok |-> TRUE, cur |-> d.cur,
        perimeter |-> AssignVector(AssignVector(this,
                        "points", "pointsCap", "waypoint", pts.waypoints),
                        "exits", "exitsCap", "exit", header.exits)]])])])])])])])

\* Perimeter::operator=
PerimeterAssign(this, other) ==
  AssignVector(AssignVector(this,
    "points", "pointsCap", "waypoint", other.points),
    "exits", "exitsCap", "exit", other.exits)

\* Perimeter::Valid
PerimeterValid(pm) ==
  /\ Len(pm.points) > 0
  /\ \A i \in 1..Len(pm.points) :
       WaypointValid(pm.points[i]) /\ pm.points[i].id = i
  /\ \A i \in 1..Len(pm.exits) : ExitValid(pm.exits[i])

(***************************************************************************)
(* Zone                                                                    *)
(***************************************************************************)

\* ZoneHeader::Load
ZoneHeaderLoad(file, cur) ==
  With([oldPos \in {tellg(cur)} |->
  With([oldLineNumber \in {cur.line} |->
  With([r \in {nextRealLine(file, cur)} |->
  With([tokens \in {split(r.text, " ")} |->
  With([pk \in {Peek(Len(tokens) = 0 \/ tokens[1] = kw_zone_name, cur, NoPeek)} |->
  IF Len(tokens) = 2 /\ tokens[1] = kw_perimeter
  THEN [ok |-> TRUE,
        cur |-> Scanned([seekg(r.cur, oldPos) EXCEPT !.line = oldLineNumber],
                        "zone", pk),
        name |-> <<>>]
  ELSE IF Len(tokens) # 2 THEN Failure(r.cur, "zone header")
  ELSE IF tokens[1] # kw_zone_name THEN Failure(r.cur, "zone header")
  ELSE [ok |-> TRUE, cur |-> Scanned(r.cur, "zone", pk), name |-> tokens[2]]])])])])])

\* Zone::Zone(); spotsCap is the capacity of the spots vector.
DefaultZone ==
  [id |-> 0 - 1, spots |-> <<>>, spotsCap |-> 0, perimeter |-> DefaultPerimeter,
   name |-> <<>>]

\* The spot loop of Zone::Load: spot i (0-based) must carry id i + 1.
RECURSIVE LoadSpots(_, _, _, _, _, _)
LoadSpots(file, zoneId, cur, i, numSpots, spots) ==
  IF i >= numSpots THEN [ok |-> TRUE, cur |-> cur, spots |-> spots]
  ELSE With([sp \in {ParkingSpotLoad(DefaultParkingSpot, file, zoneId, cur)} |->
       IF ~sp.ok THEN sp
       ELSE IF sp.spot.id # i + 1 THEN Failure(sp.cur, "spot id")
       ELSE LoadSpots(file, zoneId, sp.cur, i + 1, numSpots,
                      Append(spots, ParkingSpotCopy(sp.spot)))])

\* Zone::Load
ZoneLoad(this, file, cur) ==
  With([zoneId \in {parsePositiveLine(file, kw_zone, cur)} |->
  IF ~zoneId.ok THEN zoneId
  ELSE
  With([numSpots \in {parseNonNegativeLine(file, kw_num_spots, zoneId.cur)} |->
  IF ~numSpots.ok THEN numSpots
  ELSE
  With([header \in {ZoneHeaderLoad(file, numSpots.cur)} |->
  IF ~header.ok THEN header
  ELSE
  With([perimeter \in {PerimeterLoad(DefaultPerimeter, file, zoneId.value, header.cur)} |->
  IF ~perimeter.ok THEN perimeter
  ELSE
  With([sps \in {LoadSpots(file, zoneId.value, perimeter.cur, 0, numSpots.value, <<>>)} |->
  IF ~sps.ok THEN sps
  ELSE
  With([d \in {parseDelimiter(file, kw_end_zone, sps.cur)} |->
  IF ~d.ok THEN d
  ELSE [ok |-> TRUE, cur |-> d.cur,
        zone |-> [AssignVector([this EXCEPT !.id = zoneId.value],
                               "spots", "spotsCap", "spot", sps.spots)
                  EXCEPT !.perimeter = PerimeterAssign(this.perimeter,
                                                       perimeter.perimeter),
                         !.name = header.name]]])])])])])])

\* Zone::operator=
ZoneAssign(this, other) ==
  [AssignVector([this EXCEPT !.id = IF other.id > 0 THEN other.id ELSE @],
                "spots", "spotsCap", "spot", other.spots)
   EXCEPT !.perimeter = PerimeterAssign(this.perimeter, other.perimeter),
          !.name = other.name]

\* Zone::Zone(const Zone &)
ZoneCopy(other) == ZoneAssign(DefaultZone, other)

\* Zone::Valid
ZoneValid(z) ==
  /\ z.id > 0
  /\ PerimeterValid(z.perimeter)
  /\ \A i \in 1..Len(z.spots) : ParkingSpotValid(z.spots[i]) /\ z.spots[i].id = i

\* Waypoint::operator=: SetId stores a positive id only, and the location
\* is assigned; nothing else of the other waypoint is taken.
WaypointAssign(this, other) ==
  [this EXCEPT !.id = IF other.id > 0 THEN other.id ELSE @,
               !.lat = other.lat, !.lon = other.lon]

\* Exit::operator=
ExitAssign(this, other) ==
  [exit |-> UniqueIdAssign(this.exit, other.exit),
   entry |-> UniqueIdAssign(this.entry, other.entry)]

\* Lane::operator=: SetId and LaneHeader::SetWidth store what they accept,
\* and each vector is assigned with std::vector::operator=.
LaneAssign(this, other) ==
  AssignVector(AssignVector(AssignVector(
    [this EXCEPT !.id = IF other.id > 0 THEN other.id ELSE @,
                 !.width = IF other.width >= 0 THEN other.width ELSE @,
                 !.leftBoundary = other.leftBoundary,
                 !.rightBoundary = other.rightBoundary,
                 !.stops = other.stops],
    "waypoints", "waypointsCap", "waypoint", other.waypoints),
    "checkpoints", "checkpointsCap", "checkpoint", other.checkpoints),
    "exits", "exitsCap", "exit", other.exits)

\* Segment::operator=
SegmentAssign(this, other) ==
  AssignVector([this EXCEPT !.id = IF other.id > 0 THEN other.id ELSE @,
                            !.name = other.name],
               "lanes", "lanesCap", "lane", other.lanes)

\* this = other, the copy assignment of the element type.
Assign(kind, this, other) ==
  CASE kind = "waypoint" -> WaypointAssign(this, other)
    [] kind = "checkpoint" -> CheckpointAssign(this, other)
    [] kind = "stop" -> other
    [] kind = "exit" -> ExitAssign(this, other)
    [] kind = "lane" -> LaneAssign(this, other)
    [] kind = "segment" -> SegmentAssign(this, other)
    [] kind = "spot" -> ParkingSpotAssign(this, other)
    [] kind = "zone" -> ZoneAssign(this, other)
    [] kind = "perimeter" -> PerimeterAssign(this, other)

\* The copy constructor of the element type: a default object assigned to;
\* Exit(const Exit &) goes through the constructor from two ids, which
\* stores nothing unless both are valid.
Copy(kind, other) ==
  CASE kind = "waypoint" -> WaypointAssign(DefaultWaypoint, other)
    [] kind = "checkpoint" -> CheckpointAssign(DefaultCheckpoint, other)
    [] kind = "stop" -> other
    [] kind = "exit" -> IF ExitValid(other) THEN ExitAssign(DefaultExit, other)
                        ELSE DefaultExit
    [] kind = "lane" -> LaneAssign(DefaultLane, other)
    [] kind = "segment" -> SegmentAssign(DefaultSegment, other)
    [] kind = "spot" -> ParkingSpotCopy(other)
    [] kind = "zone" -> ZoneCopy(other)
    [] kind = "perimeter" -> PerimeterAssign(DefaultPerimeter, other)

(***************************************************************************)
(* RNDF: the document                                                      *)
(***************************************************************************)

DocumentOptions == {kw_format_version, kw_creation_date}

\* The for loop of RNDFHeader::Load (at most two iterations).  A two-token
\* line that is neither the segment directive nor format_version is stored
\* as the creation date.
RECURSIVE RNDFHeaderLoop(_, _, _, _, _)
RNDFHeaderLoop(file, cur, i, h, peek) ==
  IF i >= 2 THEN [ok |-> TRUE, cur |-> Scanned(cur, "document", peek), header |-> h]
  ELSE
  With([oldPos \in {tellg(cur)} |->
  With([oldLineNumber \in {cur.line} |->
  With([r \in {nextRealLine(file, cur)} |->
  With([tokens \in {split(r.text, " ")} |->
  With([pk \in {Peek(Len(tokens) = 0 \/ tokens[1] \in DocumentOptions, cur, peek)} |->
  IF Len(tokens) = 2 /\ tokens[1] = kw_segment
  THEN [ok |-> TRUE,
        cur |-> Scanned([seekg(r.cur, oldPos) EXCEPT !.line = oldLineNumber],
                        "document", pk),
        header |-> h]
  ELSE IF \/ Len(tokens) # 2
          \/ tokens[1] = kw_format_version /\ h.versionFound
          \/ tokens[1] = kw_creation_date /\ h.dateFound
  THEN Failure(r.cur, "file header")
  ELSE IF tokens[1] = kw_format_version
  THEN RNDFHeaderLoop(file, r.cur, i + 1,
         [h EXCEPT !.version = tokens[2], !.versionFound = TRUE], pk)
  ELSE RNDFHeaderLoop(file, r.cur, i + 1,
         [h EXCEPT !.date = tokens[2], !.dateFound = TRUE], pk)])])])])])

\* RNDFHeader::RNDFHeader() with the flags of its Load.
DefaultRNDFHeader ==
  [version |-> <<>>, date |-> <<>>, versionFound |-> FALSE, dateFound |-> FALSE]

\* RNDFHeader::Load
RNDFHeaderLoad(file, cur) == RNDFHeaderLoop(file, cur, 0, DefaultRNDFHeader, NoPeek)

\* The empty std::map.
EmptyCache == [k \in {} |-> <<>>]

\* RNDF::RNDF(); zonesCap is the capacity of the zones vector.
DefaultRNDF ==
  [name |-> <<>>, segments |-> <<>>, segmentsCap |-> 0, zones |-> <<>>,
   zonesCap |-> 0,
   version |-> <<>>, date |-> <<>>, cache |-> EmptyCache]

RECURSIVE LoadSegments(_, _, _, _, _)

\* The segment loop without its test that the ids are consecutive.
LoadSegmentsUnchecked(file, cur, i, numSegments, segments) ==
  IF i >= numSegments THEN [ok |-> TRUE, cur |-> cur, segments |-> segments]
  ELSE With([sg \in {SegmentLoad(DefaultSegment, file, cur)} |->
       IF ~sg.ok THEN sg
       ELSE LoadSegments(file, sg.cur, i + 1, numSegments,
                         Append(segments, Copy("segment", sg.segment)))])

\* The segment loop of RNDF::Load: segment i (0-based) must carry id i + 1.
LoadSegments(file, cur, i, numSegments, segments) ==
  IF i >= numSegments THEN [ok |-> TRUE, cur |-> cur, segments |-> segments]
  ELSE With([sg \in {SegmentLoad(DefaultSegment, file, cur)} |->
       IF ~sg.ok THEN sg
       ELSE IF sg.segment.id # i + 1 THEN Failure(sg.cur, "segment id")
       ELSE LoadSegments(file, sg.cur, i + 1, numSegments,
                         Append(segments, Copy("segment", sg.segment)))])

\* The zone loop of RNDF::Load: zone i (0-based) must carry the id
\* segments.size() + i + 1.
RECURSIVE LoadZones(_, _, _, _, _, _)
\* The zone loop with the id compared as soon as the zone line is read.
LoadZonesCheckingFirst(file, cur, i, numZones, numSegments, zones) ==
  IF i >= numZones THEN [ok |-> TRUE, cur |-> cur, zones |-> zones]
  ELSE With([zoneId \in {parsePositiveLine(file, kw_zone, cur)} |->
       IF zoneId.ok /\ zoneId.value # numSegments + i + 1
       THEN Failure(zoneId.cur, "zone id")
       ELSE With([z \in {ZoneLoad(DefaultZone, file, cur)} |->
            IF ~z.ok THEN z
            ELSE LoadZones(file, z.cur, i + 1, numZones, numSegments,
                           Append(zones, ZoneCopy(z.zone)))])])

LoadZones(file, cur, i, numZones, numSegments, zones) ==
  IF i >= numZones THEN [ok |-> TRUE, cur |-> cur, zones |-> zones]
  ELSE With([z \in {ZoneLoad(DefaultZone, file, cur)} |->
       IF ~z.ok THEN z
       ELSE IF z.zone.id # numSegments + i + 1 THEN Failure(z.cur, "zone id")
       ELSE LoadZones(file, z.cur, i + 1, numZones, numSegments,
                      Append(zones, ZoneCopy(z.zone)))])

\* The value the line counter of RNDF::Load starts from.
InitialLineNumber == 0 - 1

\* The parse of RNDF::Load, from the opened stream to the end_file line.
RNDFParse(file) ==
  With([fileName \in {parseString(file, kw_RNDF_name, NewCursor(InitialLineNumber))} |->
  IF ~fileName.ok THEN fileName
  ELSE
  With([numSegments \in {parsePositiveLine(file, kw_num_segments, fileName.cur)} |->
  IF ~numSegments.ok THEN numSegments
  ELSE
  With([numZones \in {parseNonNegativeLine(file, kw_num_zones, numSegments.cur)} |->
  IF ~numZones.ok THEN numZones
  ELSE
  With([header \in {RNDFHeaderLoad(file, numZones.cur)} |->
  IF ~header.ok THEN header
  ELSE
  With([sgs \in {LoadSegments(file, header.cur, 0, numSegments.value, <<>>)} |->
  IF ~sgs.ok THEN sgs
  ELSE
  With([zs \in {LoadZones(file, sgs.cur, 0, numZones.value, Len(sgs.segments), <<>>)} |->
  IF ~zs.ok THEN zs
  ELSE
  With([d \in {parseDelimiter(file, kw_end_file, zs.cur)} |->
  IF ~d.ok THEN d
  ELSE [ok |-> TRUE, cur |-> d.cur, name |-> fileName.value,
        segments |-> sgs.segments, zones |-> zs.zones,
        version |-> header.header.version,
        date |-> header.header.date]])])])])])])])

RECURSIVE Flatten(_)
Flatten(ss) == IF ss = <<>> THEN <<>> ELSE Head(ss) \o Flatten(Tail(ss))

\* The null pointer of an RNDFNode.
NullPtr == <<>>

\* The (key, node) pairs RNDF::UpdateCache stores, in the order it stores
\* them.  A pointer into the tree is the index path of the slot it points at.
CacheEntries(doc) ==
  Flatten([i \in 1..Len(doc.segments) |->
    Flatten([j \in 1..Len(doc.segments[i].lanes) |->
      [k \in 1..Len(doc.segments[i].lanes[j].waypoints) |->
         LET id == UniqueId(doc.segments[i].id, doc.segments[i].lanes[j].id,
                            doc.segments[i].lanes[j].waypoints[k].id)
         IN [key |-> UniqueIdString(id),
             node |-> [uniqueId |-> id, segment |-> <<i>>, lane |-> <<i, j>>,
                       zone |-> NullPtr, waypoint |-> <<1, i, j, k>>]]]])])
  \o
  Flatten([i \in 1..Len(doc.zones) |->
    [k \in 1..Len(doc.zones[i].perimeter.points) |->
       LET id == UniqueId(doc.zones[i].id, 0, doc.zones[i].perimeter.points[k].id)
       IN [key |-> UniqueIdString(id),
           node |-> [uniqueId |-> id, segment |-> NullPtr, lane |-> NullPtr,
                     zone |-> <<i>>, waypoint |-> <<2, i, 0, k>>]]]
    \o
    Flatten([j \in 1..Len(doc.zones[i].spots) |->
      [k \in 1..Len(doc.zones[i].spots[j].waypoints) |->
         LET id == UniqueId(doc.zones[i].id, doc.zones[i].spots[j].id,
                            doc.zones[i].spots[j].waypoints[k].id)
         IN [key |-> UniqueIdString(id),
             node |-> [uniqueId |-> id, segment |-> NullPtr, lane |-> NullPtr,
                       zone |-> <<i>>, waypoint |-> <<3, i, j, k>>]]]])])

\* cache[key] = node, for each pair in turn.
RECURSIVE Store(_, _)
Store(cache, entries) ==
  IF entries = <<>> THEN cache
  ELSE Store([k \in DOMAIN cache \cup {Head(entries).key} |->
                IF k = Head(entries).key THEN Head(entries).node ELSE cache[k]],
             Tail(entries))

\* UpdateCache without its loop over the zones.
UpdateCacheSegmentsOnly(doc) ==
  [doc EXCEPT !.cache =
     Store(doc.cache, SelectSeq(CacheEntries(doc),
                                LAMBDA e : e.node.zone = NullPtr))]

\* RNDF::UpdateCache: entries are added or overwritten, none is removed.
UpdateCache(doc) == [doc EXCEPT !.cache = Store(doc.cache, CacheEntries(doc))]

\* RNDF::Info: the set holding the node found, empty for nullptr.
Info(doc, id) ==
  IF UniqueIdString(id) \notin DOMAIN doc.cache THEN {}
  ELSE {doc.cache[UniqueIdString(id)]}

\* The value of a pointer of an RNDFNode whose target has been freed: it
\* points into the storage a vector has left on reallocating, or into the
\* private data of an element that has been destroyed.  It names no element
\* of the tree, and no operation of the library reads through it.
Dangling == <<0>>

\* The cache of a document once its vectors have been written to: the entries
\* are the ones UpdateCache stored earlier, and none is touched by the write,
\* so each pointer keeps its address.  The address still lies in the tree's
\* storage when no vector on the way to it has reallocated (its capacity has
\* not grown) and no element on the way has been destroyed (its index is
\* within the size before and after the write); otherwise the storage has
\* been freed.  The slot pointed at may itself lie beyond the size.
Repoint(old, new) ==
  LET segments == new.segmentsCap = old.segmentsCap
      segment(i) == segments /\ i <= Len(old.segments) /\ i <= Len(new.segments)
      lanes(i) == segment(i) /\ new.segments[i].lanesCap = old.segments[i].lanesCap
      lane(i, j) == lanes(i) /\ j <= Len(old.segments[i].lanes) /\ j <= Len(new.segments[i].lanes)
      waypoints(i, j) == lane(i, j) /\ new.segments[i].lanes[j].waypointsCap = old.segments[i].lanes[j].waypointsCap
      zones == new.zonesCap = old.zonesCap
      zone(i) == zones /\ i <= Len(old.zones) /\ i <= Len(new.zones)
      points(i) == zone(i) /\ new.zones[i].perimeter.pointsCap = old.zones[i].perimeter.pointsCap
      spots(i) == zone(i) /\ new.zones[i].spotsCap = old.zones[i].spotsCap
      spot(i, j) == spots(i) /\ j <= Len(old.zones[i].spots) /\ j <= Len(new.zones[i].spots)
      spotWaypoints(i, j) == spot(i, j) /\ new.zones[i].spots[j].waypointsCap = old.zones[i].spots[j].waypointsCap
      Kept(field, p) ==
        CASE field = "segment" -> segments
          [] field = "lane" -> lanes(p[1])
          [] field = "zone" -> zones
          [] field = "waypoint" /\ p[1] = 1 -> waypoints(p[2], p[3])
          [] field = "waypoint" /\ p[1] = 2 -> points(p[2])
          [] field = "waypoint" /\ p[1] = 3 -> spotWaypoints(p[2], p[3])
      To(field, p) ==
        IF p = NullPtr \/ p = Dangling \/ Kept(field, p) THEN p ELSE Dangling
  IN [new EXCEPT !.cache =
        [k \in DOMAIN old.cache |->
           [old.cache[k] EXCEPT !.segment = To("segment", @),
                                !.lane = To("lane", @),
                                !.zone = To("zone", @),
                                !.waypoint = To("waypoint", @)]]]

\* The population step without its SetName.
RNDFPopulateUnnamed(this, p) ==
  UpdateCache(Repoint(this, AssignVector(AssignVector(
    [this EXCEPT !.version = p.version, !.date = p.date],
    "segments", "segmentsCap", "segment", p.segments),
    "zones", "zonesCap", "zone", p.zones)))

\* RNDF::Load on an opened stream: nothing is written unless the whole file
\* has parsed; then the fields are populated and the cache updated.
RNDFPopulate(this, p) ==
  UpdateCache(Repoint(this, AssignVector(AssignVector(
    [this EXCEPT !.name = p.name, !.version = p.version, !.date = p.date],
    "segments", "segmentsCap", "segment", p.segments),
    "zones", "zonesCap", "zone", p.zones)))

\* RNDF::Valid
RNDFValid(doc) ==
  /\ doc.name # <<>>
  /\ Len(doc.segments) > 0
  /\ \A i \in 1..Len(doc.segments) :
       SegmentValid(doc.segments[i]) /\ doc.segments[i].id = i
  /\ \A i \in 1..Len(doc.zones) :
       ZoneValid(doc.zones[i]) /\ doc.zones[i].id = Len(doc.segments) + i

(***************************************************************************)
(* The input files.  Lines are built from the grammar's keywords; every    *)
(* file ends with a newline.                                               *)
(***************************************************************************)

Line2(kw, tok) == kw \o SP \o tok

Id2(x, y) == to_string(x) \o DOT \o to_string(y)

Id3(x, y, z) == to_string(x) \o DOT \o to_string(y) \o DOT \o to_string(z)

Lat == <<"3", ".", "5">>

Lon == <<"-", "7", ".", "2">>

WaypointLine(x, y, z) == Id3(x, y, z) \o SP \o Lat \o SP \o Lon

Comment == <<"/", "*", " ", "c", " ", "*", "/">>

\* A document with every optional directive, a comment-only line, a line
\* with a trailing comment and a blank line: one segment with one lane, one
\* zone with a perimeter exit and one parking spot.
FullFile ==
  << Line2(kw_RNDF_name, <<"f", "u", "l", "l">>),
     Line2(kw_num_segments, to_string(1)),
     Line2(kw_num_zones, to_string(1)),
     Line2(kw_format_version, <<"1", ".", "0">>),
     Line2(kw_creation_date, <<"2", "0", "1", "7">>),
     Line2(kw_segment, to_string(1)),
     Line2(kw_num_lanes, to_string(1)),
     Line2(kw_segment_name, <<"M", "a", "i", "n">>),
     Line2(kw_lane, Id2(1, 1)),
     Line2(kw_num_waypoints, to_string(2)),
     Line2(kw_lane_width, to_string(12)),
     Line2(kw_left_boundary, kw_double_yellow),
     Line2(kw_right_boundary, kw_broken_white),
     Line2(kw_checkpoint, Id3(1, 1, 1) \o SP \o to_string(1)),
     Line2(kw_stop, Id3(1, 1, 2)),
     Line2(kw_exit, Id3(1, 1, 2) \o SP \o Id3(2, 0, 1)),
     Comment,
     WaypointLine(1, 1, 1),
     WaypointLine(1, 1, 2) \o SP \o Comment,
     kw_end_lane,
     kw_end_segment,
     Line2(kw_zone, to_string(2)),
     Line2(kw_num_spots, to_string(1)),
     Line2(kw_zone_name, <<"L", "o", "t">>),
     <<>>,
     Line2(kw_perimeter, Id2(2, 0)),
     Line2(kw_num_perimeterpoints, to_string(2)),
     Line2(kw_exit, Id3(2, 0, 2) \o SP \o Id3(1, 1, 1)),
     WaypointLine(2, 0, 1),
     WaypointLine(2, 0, 2),
     kw_end_perimeter,
     Line2(kw_spot, Id2(2, 1)),
     Line2(kw_spot_width, to_string(9)),
     Line2(kw_checkpoint, Id3(2, 1, 2) \o SP \o to_string(2)),
     WaypointLine(2, 1, 1),
     WaypointLine(2, 1, 2),
     kw_end_spot,
     kw_end_zone,
     kw_end_file >>

\* A segment block with one lane of one waypoint and no optional directive.
GenSegment(id) ==
  << Line2(kw_segment, to_string(id)),
     Line2(kw_num_lanes, to_string(1)),
     Line2(kw_lane, Id2(id, 1)),
     Line2(kw_num_waypoints, to_string(1)),
     WaypointLine(id, 1, 1),
     kw_end_lane,
     kw_end_segment >>

\* A zone block with a perimeter of one point, no spot and no optional
\* directive.
GenZone(id) ==
  << Line2(kw_zone, to_string(id)),
     Line2(kw_num_spots, to_string(0)),
     Line2(kw_perimeter, Id2(id, 0)),
     Line2(kw_num_perimeterpoints, to_string(1)),
     WaypointLine(id, 0, 1),
     kw_end_perimeter,
     kw_end_zone >>

\* A document whose segment blocks carry the ids segIds and whose zone
\* blocks carry the ids zoneIds, each block consistent with its own id.
GenFile(segIds, zoneIds) ==
  << Line2(kw_RNDF_name, <<"g", "e", "n">>),
     Line2(kw_num_segments, to_string(Len(segIds))),
     Line2(kw_num_zones, to_string(Len(zoneIds))) >>
  \o Flatten([i \in 1..Len(segIds) |-> GenSegment(segIds[i])])
  \o Flatten([i \in 1..Len(zoneIds) |-> GenZone(zoneIds[i])])
  \o <<kw_end_file>>

\* The smallest document: one segment, no zone.
MinFile == GenFile(<<1>>, <<>>)

\* A well-formed line that is no directive of the grammar.
Foreign == <<"f", "o", "o", " ", "b", "a", "r">>

\* One-line edits of a file: line i removed, line i repeated right after
\* itself, line i repeated after the line that follows it, the foreign line
\* put in front of line i.
Edit(f, kind, i) ==
  IF kind = "del" THEN SubSeq(f, 1, i - 1) \o SubSeq(f, i + 1, Len(f))
  ELSE IF kind = "dup" THEN SubSeq(f, 1, i) \o SubSeq(f, i, Len(f))
  ELSE IF kind = "dup2"
  THEN SubSeq(f, 1, i + 1) \o <<f[i]>> \o SubSeq(f, i + 2, Len(f))
  ELSE IF kind = "ins" THEN SubSeq(f, 1, i - 1) \o <<Foreign>> \o SubSeq(f, i, Len(f))
  ELSE f

EditKinds == {"del", "dup", "dup2", "ins"}

MaxSegments == 2

MaxZones == 2

MaxSegmentId == 2

MaxZoneId == 4

SeqsUpTo(S, lo, hi) == UNION {[1..k -> S] : k \in lo..hi}

BaseOf(name) == IF name = "full" THEN FullFile ELSE MinFile

GenInputs ==
  {[kind |-> "gen", base |-> "gen", at |-> 0, segIds |-> sg, zoneIds |-> z] :
     sg \in SeqsUpTo(1..MaxSegmentId, 1, MaxSegments),
     z \in SeqsUpTo(2..MaxZoneId, 0, MaxZones)}

EditInputs ==
  {in \in [kind : EditKinds, base : {"full", "min"}, at : 1..Len(FullFile),
           segIds : {<<>>}, zoneIds : {<<>>}] :
     in.at <= Len(BaseOf(in.base)) - (IF in.kind = "dup2" THEN 1 ELSE 0)}

Inputs == GenInputs \cup EditInputs

\* The counted children of the grammar, each named after its count.
CountedLevels ==
  {"num_segments", "num_zones", "num_lanes", "num_waypoints", "num_spots",
   "num_perimeterpoints"}

MaxCount == 2

\* What a block declares and what it holds: (declared, actual) at the level
\* under test, one child declared and held at the others.
Declared(in, level) == IF in.level = level THEN in.declared ELSE 1

Actual(in, level) == IF in.level = level THEN in.actual ELSE 1

\* n waypoint lines x.y.1 .. x.y.n
WaypointLines(x, y, n) == [k \in 1..n |-> WaypointLine(x, y, k)]

CountLane(in, x, y) ==
  << Line2(kw_lane, Id2(x, y)),
     Line2(kw_num_waypoints, to_string(Declared(in, "num_waypoints"))) >>
  \o WaypointLines(x, y, Actual(in, "num_waypoints"))
  \o <<kw_end_lane>>

CountSegment(in, x) ==
  << Line2(kw_segment, to_string(x)),
     Line2(kw_num_lanes, to_string(Declared(in, "num_lanes"))) >>
  \o Flatten([y \in 1..Actual(in, "num_lanes") |-> CountLane(in, x, y)])
  \o <<kw_end_segment>>

CountSpot(x, y) ==
  << Line2(kw_spot, Id2(x, y)), WaypointLine(x, y, 1), WaypointLine(x, y, 2),
     kw_end_spot >>

CountZone(in, x) ==
  << Line2(kw_zone, to_string(x)),
     Line2(kw_num_spots, to_string(Declared(in, "num_spots"))),
     Line2(kw_perimeter, Id2(x, 0)),
     Line2(kw_num_perimeterpoints, to_string(Declared(in, "num_perimeterpoints"))) >>
  \o WaypointLines(x, 0, Actual(in, "num_perimeterpoints"))
  \o <<kw_end_perimeter>>
  \o Flatten([y \in 1..Actual(in, "num_spots") |-> CountSpot(x, y)])
  \o <<kw_end_zone>>

\* A document whose blocks are well formed and consecutively numbered, the
\* zones after the segments it holds, but for the count under test.
CountFile(in) ==
  << Line2(kw_RNDF_name, <<"c", "n", "t">>),
     Line2(kw_num_segments, to_string(Declared(in, "num_segments"))),
     Line2(kw_num_zones, to_string(Declared(in, "num_zones"))) >>
  \o Flatten([x \in 1..Actual(in, "num_segments") |-> CountSegment(in, x)])
  \o Flatten([x \in 1..Actual(in, "num_zones") |->
                CountZone(in, Actual(in, "num_segments") + x)])
  \o <<kw_end_file>>

CountInputs ==
  {[kind |-> "count", level |-> l, declared |-> d, actual |-> a] :
     l \in CountedLevels, d \in 0..MaxCount, a \in 0..MaxCount}

\* The text of the file an input stands for.
FileOf(in) ==
  IF in.kind = "gen" THEN GenFile(in.segIds, in.zoneIds)
  ELSE IF in.kind = "count" THEN CountFile(in)
  ELSE Edit(BaseOf(in.base), in.kind, in.at)

\* The file system: path "a" holds the file under test, path "b" the full
\* document; any other path cannot be opened.
Paths == {"a", "b", "missing"}

Exists(path) == path \in {"a", "b"}

ReadFile(in, path) == IF path = "a" THEN FileOf(in) ELSE FullFile

\* A Load that resets the document when it fails, so that a failure
\* leaves an empty document behind.
RNDFLoadClearing(this, in, path) ==
  IF ~Exists(path)
  THEN [ret |-> FALSE, doc |-> DefaultRNDF,
        cur |-> NewCursor(InitialLineNumber), err |-> "open"]
  ELSE With([file \in {ReadFile(in, path)} |->
       With([p \in {RNDFParse(file)} |->
       IF ~p.ok
       THEN [ret |-> FALSE, doc |-> DefaultRNDF, cur |-> p.cur, err |-> p.err]
       ELSE [ret |-> TRUE, doc |-> RNDFPopulate(this, p),
             cur |-> p.cur, err |-> "none"]])])

\* RNDF::Load: a path that cannot be opened fails before anything is read.
RNDFLoad(this, in, path) ==
  IF ~Exists(path)
  THEN [ret |-> FALSE, doc |-> this, cur |-> NewCursor(InitialLineNumber),
        err |-> "open"]
  ELSE With([file \in {ReadFile(in, path)} |->
       With([p \in {RNDFParse(file)} |->
       IF ~p.ok
       THEN [ret |-> FALSE, doc |-> this, cur |-> p.cur, err |-> p.err]
       ELSE [ret |-> TRUE, doc |-> RNDFPopulate(this, p), cur |-> p.cur,
             err |-> "none"]])])

\* The optional directives a lane header may carry, for lane y of segment x;
\* the last one is a second lane_width.
LaneDirectives(x, y) ==
  << Line2(kw_lane_width, to_string(12)),
     Line2(kw_left_boundary, kw_double_yellow),
     Line2(kw_right_boundary, kw_broken_white),
     Line2(kw_checkpoint, Id3(x, y, 1) \o SP \o to_string(1)),
     Line2(kw_stop, Id3(x, y, 2)),
     Line2(kw_exit, Id3(x, y, 2) \o SP \o Id3(2, 0, 1)),
     Line2(kw_checkpoint, Id3(x, y, 2) \o SP \o to_string(2)),
     Line2(kw_lane_width, to_string(10)) >>

MaxDirectives == 3

\* The segment the lane under test belongs to, and the lane's own id.
LaneSegmentId == 1

LaneId == 1

\* A lane block of two waypoints whose header is the directives picked by
\* opts, in that order.
LaneFile(opts) ==
  << Line2(kw_lane, Id2(LaneSegmentId, LaneId)),
     Line2(kw_num_waypoints, to_string(2)) >>
  \o [i \in 1..Len(opts) |-> LaneDirectives(LaneSegmentId, LaneId)[opts[i]]]
  \o << WaypointLine(LaneSegmentId, LaneId, 1),
        WaypointLine(LaneSegmentId, LaneId, 2),
        kw_end_lane >>

LaneInputs ==
  {[kind |-> "lane", opts |-> o] :
     o \in SeqsUpTo(1..Len(LaneDirectives(LaneSegmentId, LaneId)), 0,
                    MaxDirectives)}

(***************************************************************************)
(* The state: the file under test, the RNDF object and what its last Load  *)
(* returned, and a Lane object loaded on its own.                          *)
(***************************************************************************)

VARIABLES
  input,   \* what the file under test holds
  doc,     \* the RNDF object
  before,  \* the RNDF object as it was when the last Load was called
  lane,    \* the Lane object
  ret,     \* "none" before any Load, then "true" or "false"
  cur,     \* the stream and the line counter when the last Load returned
  err,     \* which diagnostic the last Load printed
  path,    \* the path given to the last Load
  call,    \* the last operation called on the data model, with its argument
  uid,     \* a UniqueId object
  obj,     \* an entity object under assignment
  loaded,  \* what the Load of the full document returned and left
  direct   \* whether the id of a stored element was set where it is stored

vars == <<input, doc, before, lane, ret, cur, err, path, call, uid, obj,
          loaded, direct>>

\* No operation of the data model has been called.
NoCall == [op |-> "none"]

\* No entity object is under assignment.
NoObject == <<>>

\* The full document was not loaded.
NotLoaded == [ret |-> FALSE]

Bool(b) == IF b THEN "true" ELSE "false"

\* RNDF::RNDF()
InitDefault ==
  /\ input \in Inputs
  /\ doc = DefaultRNDF
  /\ before = DefaultRNDF
  /\ lane = DefaultLane
  /\ ret = "none"
  /\ cur = NewCursor(InitialLineNumber)
  /\ err = "none"
  /\ path = "none"
  /\ call = NoCall
  /\ uid = DefaultUniqueId
  /\ obj = NoObject
  /\ loaded = NotLoaded
  /\ direct = FALSE

\* RNDF::RNDF(const std::string &_filepath): constructs and loads, the
\* result of the load is dropped.
InitFromPath ==
  /\ input \in Inputs
  /\ \E p \in Paths : doc = RNDFLoad(DefaultRNDF, input, p).doc
  /\ before = DefaultRNDF
  /\ lane = DefaultLane
  /\ ret = "none"
  /\ cur = NewCursor(InitialLineNumber)
  /\ err = "none"
  /\ path = "none"
  /\ call = NoCall
  /\ uid = DefaultUniqueId
  /\ obj = NoObject
  /\ loaded = NotLoaded
  /\ direct = FALSE

Init == InitDefault \/ InitFromPath

\* bool RNDF::Load(const std::string &_filePath)
Load(p) ==
  \E r \in {RNDFLoad(doc, input, p)} :
     /\ doc' = r.doc
     /\ before' = doc
     /\ ret' = Bool(r.ret)
     /\ cur' = r.cur
     /\ err' = r.err
     /\ path' = p
     /\ UNCHANGED <<input, lane, call, uid, obj, loaded, direct>>

Next == \E p \in Paths : Load(p)

Spec == Init /\ [][Next]_vars

\* A Lane object on its own, as the caller of Lane::Load holds it: Lane().
InitLane ==
  /\ input \in LaneInputs
  /\ doc = DefaultRNDF
  /\ before = DefaultRNDF
  /\ lane = DefaultLane
  /\ ret = "none"
  /\ cur = NewCursor(0)
  /\ err = "none"
  /\ path = "none"
  /\ call = NoCall
  /\ uid = DefaultUniqueId
  /\ obj = NoObject
  /\ loaded = NotLoaded
  /\ direct = FALSE

\* bool Lane::Load(std::ifstream &, const int _segmentId, int &_lineNumber),
\* called on a freshly opened stream with the counter at 0.
LoadLane ==
  \E r \in {LaneLoad(lane, LaneFile(input.opts), LaneSegmentId, NewCursor(0))} :
     /\ lane' = (IF r.ok THEN r.lane ELSE lane)
     /\ ret' = Bool(r.ok)
     /\ cur' = r.cur
     /\ err' = (IF r.ok THEN "none" ELSE r.err)
     /\ path' = "lane"
     /\ UNCHANGED <<input, doc, before, call, uid, obj, loaded, direct>>

NextLane == LoadLane

SpecLane == InitLane /\ [][NextLane]_vars

(***************************************************************************)
(* What a file says, read off its text line by line.                       *)
(***************************************************************************)

TokensOf(file, i) == split(trimWhitespaces(file[i]), " ")

\* The physical lines whose first of two tokens is kw, in file order.
LinesWith(file, kw) ==
  SelectSeq([i \in 1..Len(file) |-> i],
            LAMBDA i : Len(TokensOf(file, i)) = 2 /\ TokensOf(file, i)[1] = kw)

\* The numbers those lines carry.
NumbersOn(file, kw) ==
  [n \in 1..Len(LinesWith(file, kw)) |->
     stoi(TokensOf(file, LinesWith(file, kw)[n])[2]).val]

\* The file the last Load read.
LoadedFile == ReadFile(input, path)

\* The compound ids present in the tree of a document.
PresentIds(d) ==
  UNION {UNION {{[x |-> d.segments[i].id, y |-> d.segments[i].lanes[j].id,
                  z |-> d.segments[i].lanes[j].waypoints[k].id] :
                   k \in 1..Len(d.segments[i].lanes[j].waypoints)} :
                 j \in 1..Len(d.segments[i].lanes)} :
           i \in 1..Len(d.segments)}
  \cup
  UNION {{[x |-> d.zones[i].id, y |-> 0, z |-> d.zones[i].perimeter.points[k].id] :
            k \in 1..Len(d.zones[i].perimeter.points)} :
           i \in 1..Len(d.zones)}
  \cup
  UNION {UNION {{[x |-> d.zones[i].id, y |-> d.zones[i].spots[j].id,
                  z |-> d.zones[i].spots[j].waypoints[k].id] :
                   k \in 1..Len(d.zones[i].spots[j].waypoints)} :
                 j \in 1..Len(d.zones[i].spots)} :
           i \in 1..Len(d.zones)}

MaxLookup == 5

\* The ids looked up: every compound id with small fields, and the id of
\* UniqueId().
LookupIds ==
  {UniqueId(x, y, z) : x \in 0..MaxLookup, y \in 0..MaxLookup, z \in 0..MaxLookup}

(***************************************************************************)
(* Properties                                                              *)
(***************************************************************************)

\* C1: after any Load(path) that returned true, Valid() on the document
\* returns true.
C1_LoadTrueThenValid == ret = "true" => RNDFValid(doc)

\* A Load returned true on a document that already held another file, and
\* the document has segments and zones.
C1_Witness ==
  /\ ret = "true"
  /\ before # DefaultRNDF
  /\ before.name # doc.name
  /\ Len(doc.zones) > 0

\* C2, as the code has it: a Load(path) that returned false has left the
\* document exactly as it was when Load was called, so Valid() returns what
\* it returned before the call.
C2_LoadFalseLeavesDocument == ret = "false" => doc = before

\* C2, as stated: after a Load that returned false Valid() returns false,
\* whatever the document held before.
C2_LoadFalseThenNotValid == ret = "false" => ~RNDFValid(doc)

\* A Load returned false on a document that was valid, once because the
\* file does not parse.
C2_Witness ==
  /\ ret = "false"
  /\ err \notin {"open", "none"}
  /\ RNDFValid(before)
  /\ RNDFValid(doc)

\* C3: Load returns true only if the ids on the file's segment lines are, in
\* file order, 1..S and the ids on its zone lines S+1..S+Z, where S and Z
\* are the numbers on its num_segments and num_zones lines.
C3_ConsecutiveIds ==
  ret = "true" =>
    LET S == NumbersOn(LoadedFile, kw_num_segments)[1]
        Z == NumbersOn(LoadedFile, kw_num_zones)[1]
    IN /\ NumbersOn(LoadedFile, kw_segment) = [i \in 1..S |-> i]
       /\ NumbersOn(LoadedFile, kw_zone) = [i \in 1..Z |-> S + i]

\* A file with two segment blocks and two zone blocks has loaded.
C3_Witness ==
  /\ ret = "true"
  /\ path = "a"
  /\ Len(NumbersOn(LoadedFile, kw_segment)) = 2
  /\ Len(NumbersOn(LoadedFile, kw_zone)) = 2

\* C4: after a Load that returned true on a freshly constructed document,
\* Info(id) returns an entry, carrying that id, for every compound id present
\* in the tree and null for every other id.
C4_InfoIffPresent ==
  (ret = "true" /\ before = DefaultRNDF) =>
    \A id \in LookupIds :
      IF id \in PresentIds(doc)
      THEN \E n \in Info(doc, id) : n.uniqueId = id
      ELSE Info(doc, id) = {}

\* A fresh document has loaded a file with lane waypoints, perimeter points
\* and parking-spot waypoints.
C4_Witness ==
  /\ ret = "true"
  /\ before = DefaultRNDF
  /\ \E id \in PresentIds(doc) : id.y = 0
  /\ \E id \in PresentIds(doc) : id.y > 0 /\ id.x > Len(doc.segments)
  /\ \E id \in PresentIds(doc) : id.x <= Len(doc.segments)
  /\ PresentIds(doc) \subseteq LookupIds

\* The elements of a sequence.
Range(s) == {s[i] : i \in 1..Len(s)}

\* The orderings of a sequence.
Orderings(s) ==
  {[i \in 1..Len(s) |-> s[f[i]]] :
     f \in {g \in [1..Len(s) -> 1..Len(s)] :
              \A i, j \in 1..Len(s) : g[i] = g[j] => i = j}}

\* Two lanes agree on what the header gives them.
SameHeaderFields(a, b) ==
  /\ a.width = b.width
  /\ a.leftBoundary = b.leftBoundary
  /\ a.rightBoundary = b.rightBoundary
  /\ Range(a.checkpoints) = Range(b.checkpoints)
  /\ Range(a.stops) = Range(b.stops)
  /\ Range(a.exits) = Range(b.exits)

\* C5: whatever valid option lines a lane header holds, a lane block with
\* the same lines in any other order gives the same Load result and, when it
\* loads, a Lane with the same width, the same boundaries and the same sets
\* of checkpoints, stops and exits.
C5_HeaderOrderIndependent ==
  path = "lane" =>
    \A o \in Orderings(input.opts) :
      \E r \in {LaneLoad(DefaultLane, LaneFile(o), LaneSegmentId, NewCursor(0))} :
        /\ Bool(r.ok) = ret
        /\ r.ok => SameHeaderFields(r.lane, lane)

\* A lane whose header holds a width, a boundary and a checkpoint, the
\* boundary first, has loaded.
C5_Witness ==
  /\ path = "lane"
  /\ ret = "true"
  /\ Len(input.opts) = 3
  /\ input.opts[1] = 2
  /\ Range(input.opts) = {1, 2, 4}
  /\ lane.width = 12 * FeetToMeters
  /\ lane.leftBoundary # DefaultLane.leftBoundary
  /\ lane.checkpoints # <<>>

\* The keywords of the options a header may hold at most once; the
\* checkpoint of a parking spot is one more.
OnceOnlyOptions ==
  {kw_lane_width, kw_left_boundary, kw_right_boundary, kw_spot_width,
   kw_segment_name, kw_zone_name, kw_format_version, kw_creation_date}

\* The physical lines of the full document that hold a once-only option.
OnceOnlyLines ==
  {i \in 1..Len(FullFile) :
     /\ TokensOf(FullFile, i) # <<>>
     /\ \/ TokensOf(FullFile, i)[1] \in OnceOnlyOptions
        \/ /\ TokensOf(FullFile, i)[1] = kw_checkpoint
           /\ i > LinesWith(FullFile, kw_spot)[1]}

\* C6: when the file is the full document with one of its once-only options
\* written a second time, right after the first, Load returns false and the
\* line number it reports is the physical line of the second occurrence.
C6_SecondOccurrenceLine ==
  (/\ path = "a"
   /\ input.kind = "dup"
   /\ input.base = "full"
   /\ input.at \in OnceOnlyLines) =>
    (ret = "false" /\ cur.line = input.at + 1)

\* The block terminators.
Terminators ==
  {kw_end_lane, kw_end_spot, kw_end_perimeter, kw_end_segment, kw_end_zone,
   kw_end_file}

\* The physical lines of a file that hold nothing but the word w.
LinesOf(file, w) ==
  SelectSeq([i \in 1..Len(file) |-> i], LAMBDA i : TokensOf(file, i) = <<w>>)

\* The physical lines of a file that hold a terminator.
TerminatorLines(file) == UNION {Range(LinesOf(file, w)) : w \in Terminators}

\* C7: when a line that is not the terminator stands where a block's
\* terminator is due (a foreign line put before the terminator, or the
\* terminator taken out so that the line after it comes next), Load returns
\* false, the line number it reports is the physical line of that line, and
\* that line is the last one read.
C7_TerminatorExpected ==
  (/\ path = "a"
   /\ input.kind \in {"ins", "del"}
   /\ input.at \in TerminatorLines(BaseOf(input.base))
   /\ input.at <= Len(LoadedFile)) =>
    (ret = "false" /\ cur.line = input.at /\ cur.pos = input.at)

\* The positions, among the zone blocks of a file, of the blocks whose id is
\* not the number of segments plus the position.
MisnumberedZones(file) ==
  {p \in 1..Len(NumbersOn(file, kw_zone)) :
     NumbersOn(file, kw_zone)[p] # Len(NumbersOn(file, kw_segment)) + p}

\* The least element of a set of numbers.
Least(S) == CHOOSE p \in S : \A q \in S : p <= q

\* A generated document whose segment ids are the expected ones and one of
\* whose zone blocks, itself well-formed, carries an id that is not.
ZoneIdMismatch ==
  /\ path = "a"
  /\ input.kind = "gen"
  /\ input.segIds = [i \in 1..Len(input.segIds) |-> i]
  /\ MisnumberedZones(LoadedFile) # {}

\* C8, as the code has it: Load returns false, and the id is compared only
\* once the zone block has been read to its end_zone line; the number
\* reported is what the line counter, started at InitialLineNumber, shows
\* there: the physical line of that end_zone, less one.
C8_ZoneIdReportedAfterBlock ==
  ZoneIdMismatch =>
    /\ ret = "false"
    /\ err = "zone id"
    /\ cur.line = LinesOf(LoadedFile, kw_end_zone)[Least(MisnumberedZones(LoadedFile))]
                    + InitialLineNumber

\* C8, as stated: Load returns false and the number reported is the
\* physical line of the zone's opening line.
C8_ZoneIdReportedAtOpeningLine ==
  ZoneIdMismatch =>
    /\ ret = "false"
    /\ cur.line = LinesWith(LoadedFile, kw_zone)[Least(MisnumberedZones(LoadedFile))]

\* A document of one segment and two zones, the second zone numbered 4
\* where 3 is expected, has been refused.
C8_Witness ==
  /\ ZoneIdMismatch
  /\ input.segIds = <<1>>
  /\ input.zoneIds = <<2, 4>>
  /\ ret = "false"
  /\ err = "zone id"

\* C9: in every header scan that returned success after meeting a line whose
\* keyword is not one of the header's options, the stream position and the
\* line counter are the ones snapshotted before that line was fetched.
C9_UnrecognisedLineNotConsumed ==
  \A i \in 1..Len(cur.hdr) :
    cur.hdr[i].unrec =>
      /\ cur.hdr[i].endPos = cur.hdr[i].snapPos
      /\ cur.hdr[i].endLine = cur.hdr[i].snapLine

\* C10: when Load has failed on a line of the file, the line number it
\* reports is the physical line, counted from 1, of the last line read.
C10_ReportedLineIsPhysical ==
  (ret = "false" /\ err # "open" /\ ~cur.eof) => cur.line = cur.pos

(***************************************************************************)
(* A block loaded on its own, as the block-level callers do: the stream    *)
(* stands at the block's first line and the caller owns the line counter.  *)
(***************************************************************************)

BlockKinds == {"lane", "segment", "zone", "perimeter", "spot"}

\* The keyword that opens a block of the kind and the word that ends it.
BlockOpen(kind) ==
  CASE kind = "lane" -> kw_lane
    [] kind = "segment" -> kw_segment
    [] kind = "zone" -> kw_zone
    [] kind = "perimeter" -> kw_perimeter
    [] kind = "spot" -> kw_spot

BlockEnd(kind) ==
  CASE kind = "lane" -> kw_end_lane
    [] kind = "segment" -> kw_end_segment
    [] kind = "zone" -> kw_end_zone
    [] kind = "perimeter" -> kw_end_perimeter
    [] kind = "spot" -> kw_end_spot

\* The block of the kind in the full document, first line to terminator.
BlockOf(kind) ==
  SubSeq(FullFile, LinesWith(FullFile, BlockOpen(kind))[1],
         LinesOf(FullFile, BlockEnd(kind))[1])

\* The line put into a block: nothing, a comment, a blank line or a line of
\* some other grammar.
BlockEdits == {"none", "del", "comment", "blank", "foreign"}

EditLine(edit) ==
  CASE edit = "comment" -> Comment
    [] edit = "blank" -> <<" ", " ">>
    [] edit = "foreign" -> Foreign

\* The file a block input stands for: the block, edited at one line, and a
\* line after its terminator.
BlockFile(in) ==
  (IF in.edit = "none" THEN BlockOf(in.block)
   ELSE IF in.edit = "del" THEN Edit(BlockOf(in.block), "del", in.at)
   ELSE SubSeq(BlockOf(in.block), 1, in.at - 1) \o <<EditLine(in.edit)>>
        \o SubSeq(BlockOf(in.block), in.at, Len(BlockOf(in.block))))
  \o <<Foreign>>

\* The values the caller's line counter starts from.
StartLines == {0, 7}

\* An edit never puts a line before the block's first line.
BlockInputs ==
  {in \in [kind : {"block"}, block : BlockKinds, edit : BlockEdits,
           at : 1..Len(BlockOf("zone")), start : StartLines] :
     /\ in.at <= Len(BlockOf(in.block))
     /\ in.edit = "none" => in.at = 1
     /\ in.edit \notin {"none", "del"} => in.at >= 2}

\* Lane::Load, Segment::Load, Zone::Load, Perimeter::Load and
\* ParkingSpot::Load on a fresh object; the lane, the perimeter and the spot
\* are told the id of the block that holds them in the full document.
BlockLoad(kind, file, c) ==
  CASE kind = "lane" -> LaneLoad(DefaultLane, file, 1, c)
    [] kind = "segment" -> SegmentLoad(DefaultSegment, file, c)
    [] kind = "zone" -> ZoneLoad(DefaultZone, file, c)
    [] kind = "perimeter" -> PerimeterLoad(DefaultPerimeter, file, 2, c)
    [] kind = "spot" -> ParkingSpotLoad(DefaultParkingSpot, file, 2, c)

InitBlock ==
  /\ input \in BlockInputs
  /\ doc = DefaultRNDF
  /\ before = DefaultRNDF
  /\ lane = DefaultLane
  /\ ret = "none"
  /\ cur = NewCursor(input.start)
  /\ err = "none"
  /\ path = "none"
  /\ call = NoCall
  /\ uid = DefaultUniqueId
  /\ obj = NoObject
  /\ loaded = NotLoaded
  /\ direct = FALSE

\* The Load of the block, on a freshly opened stream.
LoadBlock ==
  \E r \in {BlockLoad(input.block, BlockFile(input), NewCursor(input.start))} :
     /\ ret' = Bool(r.ok)
     /\ cur' = r.cur
     /\ err' = (IF r.ok THEN "none" ELSE r.err)
     /\ path' = "block"
     /\ UNCHANGED <<input, doc, before, lane, call, uid, obj, loaded, direct>>

NextBlock == LoadBlock

SpecBlock == InitBlock /\ [][NextBlock]_vars

\* C11: when the Load of a block (lane, segment, zone, perimeter, spot) has
\* succeeded, the stream stands right after the block's terminator line and
\* the caller's line counter has advanced by the number of physical lines
\* from the block's first line through that terminator, the lines a header
\* scan peeked at and gave back counted once.
C11_CounterAdvancesByLinesRead ==
  (path = "block" /\ ret = "true") =>
    /\ BlockFile(input)[cur.pos] = BlockEnd(input.block)
    /\ BlockFile(input)[cur.pos + 1] = Foreign
    /\ cur.line - input.start = cur.pos

\* A perimeter with a blank line in it has loaded, its counter started at 7
\* and its header scan gave back a line it had read.
C11_Witness ==
  /\ path = "block"
  /\ ret = "true"
  /\ input.block = "perimeter"
  /\ input.edit = "blank"
  /\ input.start = 7
  /\ \E i \in 1..Len(cur.hdr) : cur.hdr[i].unrec /\ cur.hdr[i].endPos < cur.pos

(***************************************************************************)
(* The data model outside the parser: equality and assignment of the       *)
(* entities, and the vectors that hold them.                               *)
(***************************************************************************)

\* Waypoint::operator==
WaypointEq(a, b) == a.id = b.id

\* Checkpoint::operator==
CheckpointEq(a, b) == a.checkpointId = b.checkpointId

\* Lane::operator==
LaneEq(a, b) == a.id = b.id

\* Segment::operator==
SegmentEq(a, b) == a.id = b.id

\* ParkingSpot::operator==
ParkingSpotEq(a, b) == a.id = b.id

\* Zone::operator==, a being *this: the ids are equal and every spot of a
\* is valid.
ZoneEq(a, b) ==
  a.id = b.id /\ \A i \in 1..Len(a.spots) : ParkingSpotValid(a.spots[i])

\* a == b as std::find and std::remove evaluate it, a being the element of
\* the vector and b the value looked for.
Equal(kind, a, b) ==
  CASE kind = "waypoint" -> WaypointEq(a, b)
    [] kind = "checkpoint" -> CheckpointEq(a, b)
    [] kind = "stop" -> a = b
    [] kind = "exit" -> ExitEq(a, b)
    [] kind = "lane" -> LaneEq(a, b)
    [] kind = "segment" -> SegmentEq(a, b)
    [] kind = "spot" -> ParkingSpotEq(a, b)
    [] kind = "zone" -> ZoneEq(a, b)

\* The test an AddX makes of its argument: Valid() of the entity, and
\* _waypointId > 0 for a stop.
ValidOf(kind, x) ==
  CASE kind = "waypoint" -> WaypointValid(x)
    [] kind = "checkpoint" -> CheckpointValid(x)
    [] kind = "stop" -> x > 0
    [] kind = "exit" -> ExitValid(x)
    [] kind = "lane" -> LaneValid(x)
    [] kind = "segment" -> SegmentValid(x)
    [] kind = "spot" -> ParkingSpotValid(x)
    [] kind = "zone" -> ZoneValid(x)

\* std::find(begin, end, x): the index of the first element equal to x, 0
\* for end().
VectorFind(kind, v, x) ==
  IF \E i \in 1..Len(v) : Equal(kind, v[i], x)
  THEN CHOOSE i \in 1..Len(v) :
         Equal(kind, v[i], x) /\ \A j \in 1..(i - 1) : ~Equal(kind, v[j], x)
  ELSE 0

\* v.push_back(x) on a vector of capacity cap: x is copied in; when the
\* vector is full the storage doubles and the elements are copied over.
PushBack(kind, v, cap, x) ==
  IF Len(v) < cap THEN [v |-> Append(v, Copy(kind, x)), cap |-> cap]
  ELSE [v |-> Append(SubSeq([i \in 1..Len(v) |-> Copy(kind, v[i])], 1, Len(v)),
                     Copy(kind, x)),
        cap |-> IF cap = 0 THEN 1 ELSE 2 * cap]

\* v.erase(std::remove(begin, end, x), end): the elements not equal to x
\* are kept in order; from the first element removed on, each slot is
\* assigned the element that moves into it.
EraseRemove(kind, v, x) ==
  With([keep \in {SelectSeq([i \in 1..Len(v) |-> i],
                            LAMBDA i : ~Equal(kind, v[i], x))} |->
  SubSeq([k \in 1..Len(keep) |->
            IF keep[k] = k THEN v[k] ELSE Assign(kind, v[k], v[keep[k]])],
         1, Len(keep))])

(***************************************************************************)
(* AddX, UpdateX and RemoveX.  A container is named after its accessor:    *)
(* RNDF::Segments and Zones, Segment::Lanes, Lane::Waypoints, Checkpoints, *)
(* Stops and Exits, Zone::Spots, Perimeter::Points and Exits,              *)
(* ParkingSpot::Waypoints.                                                 *)
(***************************************************************************)

Containers ==
  {"segments", "zones", "lanes", "waypoints", "checkpoints", "stops", "exits",
   "spots", "points", "perimeterExits", "spotWaypoints"}

\* The objects whose own setters are called; the node is the one RNDF::Info
\* returns for the first waypoint of the first lane.
Objects == {"rndf", "segment", "lane", "zone", "spot", "node"}

\* The containers that have an UpdateX.
Updatable == Containers \ {"stops", "exits", "perimeterExits"}

KindOf(c) ==
  CASE c \in {"waypoints", "points", "spotWaypoints"} -> "waypoint"
    [] c = "checkpoints" -> "checkpoint"
    [] c = "stops" -> "stop"
    [] c \in {"exits", "perimeterExits"} -> "exit"
    [] c = "lanes" -> "lane"
    [] c = "segments" -> "segment"
    [] c = "spots" -> "spot"
    [] c = "zones" -> "zone"
    [] c \in Objects -> "object"

\* RNDF::AddSegment, RNDF::AddZone, Segment::AddLane, Lane::AddWaypoint,
\* LaneHeader::AddCheckpoint, LaneHeader::AddStop, LaneHeader::AddExit,
\* Zone::AddSpot, Perimeter::AddPoint, PerimeterHeader::AddExit and
\* ParkingSpot::AddWaypoint, which takes no third waypoint.
Add(c, v, cap, x) ==
  IF ~ValidOf(KindOf(c), x) THEN [ret |-> FALSE, v |-> v, cap |-> cap]
  ELSE IF c = "spotWaypoints" /\ Len(v) >= 2
  THEN [ret |-> FALSE, v |-> v, cap |-> cap]
  ELSE IF VectorFind(KindOf(c), v, x) # 0 THEN [ret |-> FALSE, v |-> v, cap |-> cap]
  ELSE With([p \in {PushBack(KindOf(c), v, cap, x)} |->
       [ret |-> TRUE, v |-> p.v, cap |-> p.cap]])

\* The update that does not look for an equal element: it assigns to the
\* first one.
UpdateAssigningFirst(c, v, x) ==
  IF Len(v) = 0 THEN [ret |-> FALSE, v |-> v]
  ELSE [ret |-> TRUE, v |-> [v EXCEPT ![1] = Assign(KindOf(c), @, x)]]

\* RNDF::UpdateSegment, RNDF::UpdateZone, Segment::UpdateLane,
\* Lane::UpdateWaypoint, LaneHeader::UpdateCheckpoint, Zone::UpdateSpot,
\* Perimeter::UpdatePoint and ParkingSpot::UpdateWaypoint.
Update(c, v, x) ==
  With([it \in {VectorFind(KindOf(c), v, x)} |->
  IF it = 0 THEN [ret |-> FALSE, v |-> v]
  ELSE [ret |-> TRUE, v |-> [v EXCEPT ![it] = Assign(KindOf(c), @, x)]]])

\* The value a RemoveX looks for: Segment(id), Lane(id), ParkingSpot(id),
\* Zone(id), Waypoint(id, SphericalCoordinates()), Checkpoint(id, 1), the
\* waypoint id of a stop, the exit itself.
Probe(c, id) ==
  CASE KindOf(c) = "waypoint" -> [DefaultWaypoint EXCEPT !.id = IF id > 0 THEN id ELSE @]
    [] KindOf(c) = "checkpoint" ->
         IF id > 0 THEN [checkpointId |-> id, waypointId |-> 1] ELSE DefaultCheckpoint
    [] KindOf(c) = "stop" -> id
    [] KindOf(c) = "exit" -> id
    [] KindOf(c) = "lane" -> [DefaultLane EXCEPT !.id = IF id > 0 THEN id ELSE @]
    [] KindOf(c) = "segment" -> [DefaultSegment EXCEPT !.id = IF id > 0 THEN id ELSE @]
    [] KindOf(c) = "spot" -> [DefaultParkingSpot EXCEPT !.id = IF id > 0 THEN id ELSE @]
    [] KindOf(c) = "zone" -> [DefaultZone EXCEPT !.id = IF id > 0 THEN id ELSE @]

\* The values of v.erase(std::remove(...), v.end()) != v.end().  The two
\* operands of != are evaluated in an order the build chooses.  With end()
\* first, the old end is compared with the iterator erase returns, the new
\* end; with erase first, the new end is compared with itself.
ErasedNotEnd(v, w) == IF Len(w) < Len(v) THEN {TRUE, FALSE} ELSE {FALSE}

\* RNDF::RemoveSegment, RNDF::RemoveZone, Segment::RemoveLane,
\* Lane::RemoveWaypoint, LaneHeader::RemoveCheckpoint, LaneHeader::RemoveStop,
\* LaneHeader::RemoveExit, Zone::RemoveSpot, Perimeter::RemovePoint,
\* PerimeterHeader::RemoveExit and ParkingSpot::RemoveWaypoint: the vector
\* left, and the values the call can return.
Remove(c, v, id) ==
  With([w \in {EraseRemove(KindOf(c), v, Probe(c, id))} |->
  [rets |-> ErasedNotEnd(v, w), v |-> w]])

(***************************************************************************)
(* A document under mutation.  The calls go to one container of the tree   *)
(* and to the object that owns it, reached through the mutable accessors:  *)
(* the document itself, its first segment, that segment's first lane, the  *)
(* first zone, its perimeter, or its first spot; or they go to one of      *)
(* these objects alone, and are the setters of its scalar fields.  The     *)
(* first element of a vector of waypoints, checkpoints or exits is reached *)
(* the same way, and an id written into it where it is stored is recorded  *)
(* in direct: no AddX, UpdateX or RemoveX has seen that id.                *)
(***************************************************************************)

\* The object that owns a container.
LevelOf(c) ==
  CASE c \in {"segments", "zones"} -> "rndf"
    [] c = "lanes" -> "segment"
    [] c \in {"waypoints", "checkpoints", "stops", "exits"} -> "lane"
    [] c = "spots" -> "zone"
    [] c \in {"points", "perimeterExits"} -> "perimeter"
    [] c = "spotWaypoints" -> "spot"
    [] c \in Objects -> c

\* Whether the document holds the object: Segments()[0], Segments()[0]
\* .Lanes()[0], Zones()[0], Zones()[0].Perimeter(), Zones()[0].Spots()[0].
HasObject(d, level) ==
  CASE level = "rndf" -> TRUE
    [] level = "segment" -> Len(d.segments) >= 1
    [] level = "lane" -> Len(d.segments) >= 1 /\ Len(d.segments[1].lanes) >= 1
    [] level \in {"zone", "perimeter"} -> Len(d.zones) >= 1
    [] level = "spot" -> Len(d.zones) >= 1 /\ Len(d.zones[1].spots) >= 1

\* The vector behind a container of the object.
Get(d, c) ==
  CASE c = "segments" -> d.segments
    [] c = "zones" -> d.zones
    [] c = "lanes" -> d.segments[1].lanes
    [] c = "waypoints" -> d.segments[1].lanes[1].waypoints
    [] c = "checkpoints" -> d.segments[1].lanes[1].checkpoints
    [] c = "stops" -> d.segments[1].lanes[1].stops
    [] c = "exits" -> d.segments[1].lanes[1].exits
    [] c = "spots" -> d.zones[1].spots
    [] c = "points" -> d.zones[1].perimeter.points
    [] c = "perimeterExits" -> d.zones[1].perimeter.exits
    [] c = "spotWaypoints" -> d.zones[1].spots[1].waypoints

\* Its capacity; none is kept for the stops, which are ints.
Capacity(d, c) ==
  CASE c = "segments" -> d.segmentsCap
    [] c = "zones" -> d.zonesCap
    [] c = "lanes" -> d.segments[1].lanesCap
    [] c = "waypoints" -> d.segments[1].lanes[1].waypointsCap
    [] c = "checkpoints" -> d.segments[1].lanes[1].checkpointsCap
    [] c = "stops" -> Len(d.segments[1].lanes[1].stops)
    [] c = "exits" -> d.segments[1].lanes[1].exitsCap
    [] c = "spots" -> d.zones[1].spotsCap
    [] c = "points" -> d.zones[1].perimeter.pointsCap
    [] c = "perimeterExits" -> d.zones[1].perimeter.exitsCap
    [] c = "spotWaypoints" -> d.zones[1].spots[1].waypointsCap

\* The write to a vector that is followed by UpdateCache.
PutUpdatingCache(d, c, v, cap) ==
  UpdateCache(Repoint(d,
    CASE c = "segments" -> [d EXCEPT !.segments = v, !.segmentsCap = cap]
      [] c = "zones" -> [d EXCEPT !.zones = v, !.zonesCap = cap]
      [] c = "lanes" -> [d EXCEPT !.segments[1].lanes = v,
                                  !.segments[1].lanesCap = cap]
      [] c = "waypoints" -> [d EXCEPT !.segments[1].lanes[1].waypoints = v,
                                      !.segments[1].lanes[1].waypointsCap = cap]
      [] c = "checkpoints" -> [d EXCEPT !.segments[1].lanes[1].checkpoints = v,
                                        !.segments[1].lanes[1].checkpointsCap = cap]
      [] c = "stops" -> [d EXCEPT !.segments[1].lanes[1].stops = v]
      [] c = "exits" -> [d EXCEPT !.segments[1].lanes[1].exits = v,
                                  !.segments[1].lanes[1].exitsCap = cap]
      [] c = "spots" -> [d EXCEPT !.zones[1].spots = v, !.zones[1].spotsCap = cap]
      [] c = "points" -> [d EXCEPT !.zones[1].perimeter.points = v,
                                   !.zones[1].perimeter.pointsCap = cap]
      [] c = "perimeterExits" -> [d EXCEPT !.zones[1].perimeter.exits = v,
                                           !.zones[1].perimeter.exitsCap = cap]
      [] c = "spotWaypoints" -> [d EXCEPT !.zones[1].spots[1].waypoints = v,
                                          !.zones[1].spots[1].waypointsCap = cap]))

\* The document once the vector has been written to: its cache is not
\* updated, and the pointers of its entries keep their addresses.
Put(d, c, v, cap) ==
  Repoint(d,
  CASE c = "segments" -> [d EXCEPT !.segments = v, !.segmentsCap = cap]
    [] c = "zones" -> [d EXCEPT !.zones = v, !.zonesCap = cap]
    [] c = "lanes" -> [d EXCEPT !.segments[1].lanes = v,
                                !.segments[1].lanesCap = cap]
    [] c = "waypoints" -> [d EXCEPT !.segments[1].lanes[1].waypoints = v,
                                    !.segments[1].lanes[1].waypointsCap = cap]
    [] c = "checkpoints" -> [d EXCEPT !.segments[1].lanes[1].checkpoints = v,
                                      !.segments[1].lanes[1].checkpointsCap = cap]
    [] c = "stops" -> [d EXCEPT !.segments[1].lanes[1].stops = v]
    [] c = "exits" -> [d EXCEPT !.segments[1].lanes[1].exits = v,
                                !.segments[1].lanes[1].exitsCap = cap]
    [] c = "spots" -> [d EXCEPT !.zones[1].spots = v, !.zones[1].spotsCap = cap]
    [] c = "points" -> [d EXCEPT !.zones[1].perimeter.points = v,
                                 !.zones[1].perimeter.pointsCap = cap]
    [] c = "perimeterExits" -> [d EXCEPT !.zones[1].perimeter.exits = v,
                                         !.zones[1].perimeter.exitsCap = cap]
    [] c = "spotWaypoints" -> [d EXCEPT !.zones[1].spots[1].waypoints = v,
                                        !.zones[1].spots[1].waypointsCap = cap])

\* The id of the object of a level that has one.
GetId(d, level) ==
  CASE level = "segment" -> d.segments[1].id
    [] level = "lane" -> d.segments[1].lanes[1].id
    [] level = "zone" -> d.zones[1].id
    [] level = "spot" -> d.zones[1].spots[1].id

PutId(d, level, id) ==
  CASE level = "segment" -> [d EXCEPT !.segments[1].id = id]
    [] level = "lane" -> [d EXCEPT !.segments[1].lanes[1].id = id]
    [] level = "zone" -> [d EXCEPT !.zones[1].id = id]
    [] level = "spot" -> [d EXCEPT !.zones[1].spots[1].id = id]

(***************************************************************************)
(* The entities the caller passes.                                         *)
(***************************************************************************)

\* Waypoint(id, location)
ArgWaypoint(id, lat) == [DefaultWaypoint EXCEPT !.id = id, !.lat = lat, !.lon = Lon]

OtherLat == <<"0">>

\* A lane, a segment, a spot, a perimeter and a zone built by their
\* constructors and by push_back on the vectors their mutable accessors
\* return.
ArgLane(id, waypoints) ==
  [DefaultLane EXCEPT !.id = id, !.waypoints = waypoints,
                      !.waypointsCap = GrownCapacity(Len(waypoints))]

ArgSegment(id, lanes) ==
  [DefaultSegment EXCEPT !.id = id, !.lanes = lanes,
                         !.lanesCap = GrownCapacity(Len(lanes))]

ArgSpot(id, waypoints, width) ==
  [DefaultParkingSpot EXCEPT !.id = id, !.waypoints = waypoints,
                             !.waypointsCap = GrownCapacity(Len(waypoints)),
                             !.width = width]

ArgPerimeter(points, exits) ==
  [points |-> points, pointsCap |-> GrownCapacity(Len(points)),
   exits |-> exits, exitsCap |-> GrownCapacity(Len(exits))]

ArgZone(id, points, spots) ==
  [DefaultZone EXCEPT !.id = id, !.perimeter = ArgPerimeter(points, <<>>),
                      !.spots = spots,
                      !.spotsCap = GrownCapacity(Len(spots))]

W1 == ArgWaypoint(1, Lat)

W2 == ArgWaypoint(2, Lat)

W3 == ArgWaypoint(3, Lat)

\* Exit(UniqueId, UniqueId)
ArgExit(a, b) == [exit |-> a, entry |-> b]

\* What AddX and UpdateX are called with: valid entities, entities equal
\* to one another with different contents, and invalid ones.
Args(c) ==
  CASE c = "spotWaypoints" -> {W1, W2, W3, ArgWaypoint(1, OtherLat), DefaultWaypoint}
    [] KindOf(c) = "waypoint" /\ c # "spotWaypoints" ->
         {W1, W2, ArgWaypoint(1, OtherLat), DefaultWaypoint}
    [] KindOf(c) = "checkpoint" ->
         {[checkpointId |-> 1, waypointId |-> 2],
          [checkpointId |-> 2, waypointId |-> 1],
          [checkpointId |-> 1, waypointId |-> 0 - 1], DefaultCheckpoint}
    [] KindOf(c) = "stop" -> {1, 2, 0 - 1}
    [] KindOf(c) = "exit" ->
         {ArgExit(UniqueId(1, 1, 2), UniqueId(2, 0, 1)),
          ArgExit(UniqueId(2, 0, 2), UniqueId(1, 1, 1)), DefaultExit}
    [] KindOf(c) = "lane" ->
         {ArgLane(1, <<W1>>), ArgLane(2, <<W1>>), ArgLane(1, <<>>),
          ArgLane(2, <<W2>>)}
    [] KindOf(c) = "segment" ->
         {ArgSegment(1, <<ArgLane(1, <<W1>>)>>), ArgSegment(2, <<ArgLane(1, <<W1>>)>>),
          ArgSegment(1, <<>>), ArgSegment(2, <<ArgLane(2, <<W1>>)>>)}
    [] KindOf(c) = "spot" ->
         {ArgSpot(1, <<W1, W2>>, 0), ArgSpot(2, <<W1, W2>>, 5),
          ArgSpot(1, <<W1>>, 0)}
    [] KindOf(c) = "zone" ->
         {ArgZone(2, <<W1>>, <<>>), ArgZone(3, <<W1>>, <<>>),
          ArgZone(2, <<W1>>, <<ArgSpot(1, <<W1>>, 0)>>), ArgZone(3, <<>>, <<>>)}

\* What RemoveX is called with: an id, or the exit itself.
RemoveArgs(c) == IF KindOf(c) = "exit" THEN Args(c) ELSE {1, 2, 3}

\* What SetId is called with.
IdArgs == {1, 2, 0 - 1}

\* The container under mutation.
TreeInputs == {[kind |-> "tree", c |-> c] : c \in Containers \cup Objects}

InitTree ==
  /\ input \in TreeInputs
  /\ doc = DefaultRNDF
  /\ before = DefaultRNDF
  /\ lane = DefaultLane
  /\ ret = "none"
  /\ cur = NewCursor(InitialLineNumber)
  /\ err = "none"
  /\ path = "none"
  /\ call = NoCall
  /\ uid = DefaultUniqueId
  /\ obj = NoObject
  /\ loaded = NotLoaded
  /\ direct = FALSE

\* RNDF::Load of the full document into the fresh object.
LoadFull ==
  /\ call = NoCall
  /\ uid = DefaultUniqueId
  /\ \E r \in {RNDFLoad(doc, input, "b")} :
       /\ doc' = r.doc
       /\ ret' = Bool(r.ret)
       /\ cur' = r.cur
       /\ err' = r.err
       /\ loaded' = [ret |-> r.ret, doc |-> r.doc]
  /\ before' = doc
  /\ path' = "b"
  /\ call' = [op |-> "Load"]
  /\ UNCHANGED <<input, lane, uid, obj, direct>>

\* RNDF::SetName, Segment::SetName, Zone::SetName
SetName(name) ==
  /\ LevelOf(input.c) \in {"rndf", "segment", "zone"}
  /\ HasObject(doc, LevelOf(input.c))
  /\ doc' = (CASE LevelOf(input.c) = "rndf" -> [doc EXCEPT !.name = name]
               [] LevelOf(input.c) = "segment" ->
                    [doc EXCEPT !.segments[1].name = name]
               [] LevelOf(input.c) = "zone" ->
                    [doc EXCEPT !.zones[1].name = name])
  /\ before' = doc
  /\ ret' = "none"
  /\ call' = [op |-> "SetName", x |-> name]
  /\ UNCHANGED <<input, lane, cur, err, path, uid, obj, loaded, direct>>

\* Segment::SetId, Lane::SetId, Zone::SetId, ParkingSpot::SetId
SetId(id) ==
  /\ LevelOf(input.c) \in {"segment", "lane", "zone", "spot"}
  /\ HasObject(doc, LevelOf(input.c))
  /\ doc' = (IF id > 0 THEN PutId(doc, LevelOf(input.c), id) ELSE doc)
  /\ before' = doc
  /\ ret' = Bool(id > 0)
  /\ call' = [op |-> "SetId", x |-> id]
  /\ UNCHANGED <<input, lane, cur, err, path, uid, obj, loaded, direct>>

\* RNDF::SetVersion
SetVersion(version) ==
  /\ input.c = "rndf"
  /\ doc' = [doc EXCEPT !.version = version]
  /\ before' = doc
  /\ ret' = "none"
  /\ call' = [op |-> "SetVersion", x |-> version]
  /\ UNCHANGED <<input, lane, cur, err, path, uid, obj, loaded, direct>>

\* RNDF::SetDate
SetDate(newDate) ==
  /\ input.c = "rndf"
  /\ doc' = [doc EXCEPT !.date = newDate]
  /\ before' = doc
  /\ ret' = "none"
  /\ call' = [op |-> "SetDate", x |-> newDate]
  /\ UNCHANGED <<input, lane, cur, err, path, uid, obj, loaded, direct>>

\* Lane::SetWidth, which stores a width that is not negative, and
\* ParkingSpot::SetWidth, which stores a positive one.
SetWidth(newWidth) ==
  /\ input.c \in {"lane", "spot"}
  /\ HasObject(doc, input.c)
  /\ \E valid \in {IF input.c = "lane" THEN newWidth >= 0 ELSE newWidth > 0} :
       /\ doc' = (CASE ~valid -> doc
                    [] valid /\ input.c = "lane" ->
                         [doc EXCEPT !.segments[1].lanes[1].width = newWidth]
                    [] valid /\ input.c = "spot" ->
                         [doc EXCEPT !.zones[1].spots[1] =
                                        SpotSetWidth(@, newWidth)])
       /\ ret' = Bool(valid)
  /\ before' = doc
  /\ call' = [op |-> "SetWidth", x |-> newWidth]
  /\ UNCHANGED <<input, lane, cur, err, path, uid, obj, loaded, direct>>

\* Lane::SetLeftBoundary
SetLeftBoundary(boundary) ==
  /\ input.c = "lane"
  /\ HasObject(doc, "lane")
  /\ doc' = [doc EXCEPT !.segments[1].lanes[1].leftBoundary = boundary]
  /\ before' = doc
  /\ ret' = "none"
  /\ call' = [op |-> "SetLeftBoundary", x |-> boundary]
  /\ UNCHANGED <<input, lane, cur, err, path, uid, obj, loaded, direct>>

\* Lane::SetRightBoundary
SetRightBoundary(boundary) ==
  /\ input.c = "lane"
  /\ HasObject(doc, "lane")
  /\ doc' = [doc EXCEPT !.segments[1].lanes[1].rightBoundary = boundary]
  /\ before' = doc
  /\ ret' = "none"
  /\ call' = [op |-> "SetRightBoundary", x |-> boundary]
  /\ UNCHANGED <<input, lane, cur, err, path, uid, obj, loaded, direct>>

\* Waypoint::SetId on the first waypoint of the vector, reached through the
\* mutable accessor: Waypoints()[0], Points()[0].
WaypointSetId(id) ==
  /\ input.c \in Containers
  /\ KindOf(input.c) = "waypoint"
  /\ HasObject(doc, LevelOf(input.c))
  /\ Len(Get(doc, input.c)) >= 1
  /\ doc' = (IF id > 0
             THEN Put(doc, input.c, [Get(doc, input.c) EXCEPT ![1].id = id],
                      Capacity(doc, input.c))
             ELSE doc)
  /\ before' = doc
  /\ ret' = Bool(id > 0)
  /\ call' = [op |-> "Waypoint::SetId", x |-> id]
  /\ direct' = (direct \/ id > 0)
  /\ UNCHANGED <<input, lane, cur, err, path, uid, obj, loaded>>

\* Waypoint::Location(), the mutable overload, assigned to on the first
\* waypoint of the vector: Waypoints()[0].Location() = location.
WaypointLocation(location) ==
  /\ input.c \in Containers
  /\ KindOf(input.c) = "waypoint"
  /\ HasObject(doc, LevelOf(input.c))
  /\ Len(Get(doc, input.c)) >= 1
  /\ doc' = Put(doc, input.c,
                [Get(doc, input.c) EXCEPT ![1].lat = location.lat,
                                          ![1].lon = location.lon],
                Capacity(doc, input.c))
  /\ before' = doc
  /\ ret' = "none"
  /\ call' = [op |-> "Location", x |-> location]
  /\ UNCHANGED <<input, lane, cur, err, path, uid, obj, loaded, direct>>

\* The id of the node whose setters are called: Info(UniqueId(1, 1, 1)).
NodeId == UniqueId(1, 1, 1)

\* RNDFNode::SetUniqueId on the node Info returns: UniqueId::operator=.
SetUniqueId(id) ==
  /\ input.c = "node"
  /\ Info(doc, NodeId) # {}
  /\ doc' = [doc EXCEPT !.cache[UniqueIdString(NodeId)].uniqueId = UniqueIdAssign(@, id)]
  /\ before' = doc
  /\ ret' = "none"
  /\ call' = [op |-> "SetUniqueId", x |-> id]
  /\ UNCHANGED <<input, lane, cur, err, path, uid, obj, loaded, direct>>

\* RNDFNode::SetSegment
SetSegment(segment) ==
  /\ input.c = "node"
  /\ Info(doc, NodeId) # {}
  /\ doc' = [doc EXCEPT !.cache[UniqueIdString(NodeId)].segment = segment]
  /\ before' = doc
  /\ ret' = "none"
  /\ call' = [op |-> "SetSegment", x |-> segment]
  /\ UNCHANGED <<input, lane, cur, err, path, uid, obj, loaded, direct>>

\* RNDFNode::SetLane
SetLane(l) ==
  /\ input.c = "node"
  /\ Info(doc, NodeId) # {}
  /\ doc' = [doc EXCEPT !.cache[UniqueIdString(NodeId)].lane = l]
  /\ before' = doc
  /\ ret' = "none"
  /\ call' = [op |-> "SetLane", x |-> l]
  /\ UNCHANGED <<input, lane, cur, err, path, uid, obj, loaded, direct>>

\* RNDFNode::SetZone
SetZone(zone) ==
  /\ input.c = "node"
  /\ Info(doc, NodeId) # {}
  /\ doc' = [doc EXCEPT !.cache[UniqueIdString(NodeId)].zone = zone]
  /\ before' = doc
  /\ ret' = "none"
  /\ call' = [op |-> "SetZone", x |-> zone]
  /\ UNCHANGED <<input, lane, cur, err, path, uid, obj, loaded, direct>>

\* RNDFNode::SetWaypoint
SetWaypoint(waypoint) ==
  /\ input.c = "node"
  /\ Info(doc, NodeId) # {}
  /\ doc' = [doc EXCEPT !.cache[UniqueIdString(NodeId)].waypoint = waypoint]
  /\ before' = doc
  /\ ret' = "none"
  /\ call' = [op |-> "SetWaypoint", x |-> waypoint]
  /\ UNCHANGED <<input, lane, cur, err, path, uid, obj, loaded, direct>>

\* Checkpoint::SetCheckpointId on the first checkpoint of the lane,
\* Checkpoints()[0], or on the checkpoint of the spot, Checkpoint().
SetCheckpointId(id) ==
  /\ input.c \in {"checkpoints", "spot"}
  /\ HasObject(doc, LevelOf(input.c))
  /\ input.c = "checkpoints" => Len(Get(doc, input.c)) >= 1
  /\ doc' = (CASE id <= 0 -> doc
               [] id > 0 /\ input.c = "checkpoints" ->
                    Put(doc, input.c,
                        [Get(doc, input.c) EXCEPT ![1].checkpointId = id],
                        Capacity(doc, input.c))
               [] id > 0 /\ input.c = "spot" ->
                    [doc EXCEPT !.zones[1].spots[1].checkpoint.checkpointId = id])
  /\ before' = doc
  /\ ret' = Bool(id > 0)
  /\ call' = [op |-> "SetCheckpointId", x |-> id]
  /\ direct' = (direct \/ (id > 0 /\ input.c = "checkpoints"))
  /\ UNCHANGED <<input, lane, cur, err, path, uid, obj, loaded>>

\* Checkpoint::SetWaypointId, on the same checkpoints.
SetWaypointId(id) ==
  /\ input.c \in {"checkpoints", "spot"}
  /\ HasObject(doc, LevelOf(input.c))
  /\ input.c = "checkpoints" => Len(Get(doc, input.c)) >= 1
  /\ doc' = (CASE id <= 0 -> doc
               [] id > 0 /\ input.c = "checkpoints" ->
                    Put(doc, input.c,
                        [Get(doc, input.c) EXCEPT ![1].waypointId = id],
                        Capacity(doc, input.c))
               [] id > 0 /\ input.c = "spot" ->
                    [doc EXCEPT !.zones[1].spots[1].checkpoint.waypointId = id])
  /\ before' = doc
  /\ ret' = Bool(id > 0)
  /\ call' = [op |-> "SetWaypointId", x |-> id]
  /\ UNCHANGED <<input, lane, cur, err, path, uid, obj, loaded, direct>>

\* UniqueId::SetX, UniqueId::SetY and UniqueId::SetZ on an id of the first
\* exit of the vector, reached through Exits()[0].ExitId() or .EntryId().
ExitSetId(end, axis, v) ==
  /\ input.c \in Containers
  /\ KindOf(input.c) = "exit"
  /\ HasObject(doc, LevelOf(input.c))
  /\ Len(Get(doc, input.c)) >= 1
  /\ \E id \in {IF end = "exit" THEN Get(doc, input.c)[1].exit
                 ELSE Get(doc, input.c)[1].entry} :
     \E set \in {CASE axis = "x" -> SetX(id, v)
                   [] axis = "y" -> SetY(id, v)
                   [] axis = "z" -> SetZ(id, v)} :
       /\ doc' = Put(doc, input.c,
                     IF end = "exit"
                     THEN [Get(doc, input.c) EXCEPT ![1].exit = set]
                     ELSE [Get(doc, input.c) EXCEPT ![1].entry = set],
                     Capacity(doc, input.c))
       /\ ret' = Bool(IF axis = "y" THEN v >= 0 ELSE v > 0)
  /\ before' = doc
  /\ call' = [op |-> "UniqueId::Set", end |-> end, axis |-> axis, x |-> v]
  /\ UNCHANGED <<input, lane, cur, err, path, uid, obj, loaded, direct>>

\* What the width, boundary and id setters are called with.
WidthArgs == {0, FeetToMeters, 0 - 1}

BoundaryArgs == {"SOLID_WHITE"}

\* The location assigned to a stored waypoint.
LocationArgs == {[lat |-> <<"1", "0", ".", "5">>, lon |-> <<"9", "9">>]}

\* What the setters of the node are called with: the ids 9.9.9 and the
\* default one, nullptr, and the addresses &Segments()[0],
\* &Segments()[0].Lanes()[0], &Zones()[0] and
\* &Zones()[0].Perimeter().Points()[0].
NodeIdArgs == {UniqueId(9, 9, 9), DefaultUniqueId}

SegmentArgs == {NullPtr, <<1>>}

LaneArgs == {NullPtr, <<1, 1>>}

ZoneArgs == {NullPtr, <<1>>}

WaypointArgs == {NullPtr, <<2, 1, 0, 1>>}

\* The largest vector an AddX is called on.
MaxElements == 3

\* An AddX on the object.
AddX(c, x) ==
  /\ input.c = c
  /\ HasObject(doc, LevelOf(c))
  /\ Len(Get(doc, c)) <= MaxElements
  /\ \E r \in {Add(c, Get(doc, c), Capacity(doc, c), x)} :
       /\ doc' = Put(doc, c, r.v, r.cap)
       /\ ret' = Bool(r.ret)
  /\ before' = doc
  /\ call' = [op |-> "Add", c |-> c, x |-> x]
  /\ UNCHANGED <<input, lane, cur, err, path, uid, obj, loaded, direct>>

\* An UpdateX on the object.
UpdateX(c, x) ==
  /\ input.c = c
  /\ HasObject(doc, LevelOf(c))
  /\ \E r \in {Update(c, Get(doc, c), x)} :
       /\ doc' = Put(doc, c, r.v, Capacity(doc, c))
       /\ ret' = Bool(r.ret)
  /\ before' = doc
  /\ call' = [op |-> "Update", c |-> c, x |-> x]
  /\ UNCHANGED <<input, lane, cur, err, path, uid, obj, loaded, direct>>

\* A RemoveX on the object.
RemoveX(c, id) ==
  /\ input.c = c
  /\ HasObject(doc, LevelOf(c))
  /\ \E r \in {Remove(c, Get(doc, c), id)} :
       /\ doc' = Put(doc, c, r.v, Capacity(doc, c))
       /\ \E b \in r.rets : ret' = Bool(b)
  /\ before' = doc
  /\ call' = [op |-> "Remove", c |-> c, x |-> id]
  /\ UNCHANGED <<input, lane, cur, err, path, uid, obj, loaded, direct>>

NextTree ==
  \/ LoadFull
  \/ SetName(<<"n">>)
  \/ SetVersion(<<"v">>)
  \/ SetDate(<<"d">>)
  \/ \E id \in IdArgs : SetId(id)
  \/ \E w \in WidthArgs : SetWidth(w)
  \/ \E b \in BoundaryArgs : SetLeftBoundary(b)
  \/ \E b \in BoundaryArgs : SetRightBoundary(b)
  \/ \E id \in IdArgs : WaypointSetId(id)
  \/ \E location \in LocationArgs : WaypointLocation(location)
  \/ \E id \in NodeIdArgs : SetUniqueId(id)
  \/ \E segment \in SegmentArgs : SetSegment(segment)
  \/ \E l \in LaneArgs : SetLane(l)
  \/ \E zone \in ZoneArgs : SetZone(zone)
  \/ \E waypoint \in WaypointArgs : SetWaypoint(waypoint)
  \/ \E id \in IdArgs : SetCheckpointId(id)
  \/ \E id \in IdArgs : SetWaypointId(id)
  \/ \E end \in {"exit", "entry"} : \E axis \in {"x", "y", "z"} :
       \E v \in {2, 0 - 1} : ExitSetId(end, axis, v)
  \/ \E c \in Containers : \E x \in Args(c) : AddX(c, x)
  \/ \E c \in Updatable : \E x \in Args(c) : UpdateX(c, x)
  \/ \E c \in Containers : \E id \in RemoveArgs(c) : RemoveX(c, id)

SpecTree == InitTree /\ [][NextTree]_vars

\* The waypoints of a vector carry the ids 1, 2, ... in order.
Consecutive(waypoints) == \A k \in 1..Len(waypoints) : waypoints[k].id = k

\* C12: whenever the document is valid, however it was built (by Load or by
\* Add, Update, Remove and Set calls), the i-th child (0-based) has id i + 1
\* at every level: segments of the document, lanes of a segment, waypoints
\* of a lane, spots of a zone, points of a perimeter, waypoints of a spot;
\* and the j-th zone has id S + j + 1, S being the number of segments.
C12_ValidMeansConsecutiveIds ==
  RNDFValid(doc) =>
    /\ \A i \in 1..Len(doc.segments) :
         /\ doc.segments[i].id = i
         /\ \A j \in 1..Len(doc.segments[i].lanes) :
              /\ doc.segments[i].lanes[j].id = j
              /\ Consecutive(doc.segments[i].lanes[j].waypoints)
    /\ \A i \in 1..Len(doc.zones) :
         /\ doc.zones[i].id = Len(doc.segments) + i
         /\ Consecutive(doc.zones[i].perimeter.points)
         /\ \A j \in 1..Len(doc.zones[i].spots) :
              /\ doc.zones[i].spots[j].id = j
              /\ Consecutive(doc.zones[i].spots[j].waypoints)

\* A document that was never loaded is valid after its second AddSegment.
C12_Witness ==
  /\ path = "none"
  /\ call.op = "Add"
  /\ ret = "true"
  /\ Len(doc.segments) = 2
  /\ RNDFValid(doc)

(***************************************************************************)
(* A UniqueId object under construction and modification.                  *)
(***************************************************************************)

\* The conversion of a double to int is undefined when the truncated value
\* is not an int and when the double is not a number; the instruction the
\* build converts with decides.  cvttsd2si (x86-64) gives INT_MIN; fcvtzs
\* (AArch64) gives the nearest bound, and 0 for a NaN; fcvt.w.d (RISC-V)
\* gives the nearest bound, and INT_MAX for a NaN.
Conversions == {"cvttsd2si", "fcvtzs", "fcvt.w.d"}

IntMin == (0 - IntMax) - 1

\* int n = d, for the double d that std::stod returned.
DoubleToInt(conv, d) ==
  IF d.cls = "finite" /\ d.big = "no"
  THEN IF d.neg THEN 0 - d.mag ELSE d.mag
  ELSE IF d.cls = "finite" /\ d.big = "min" /\ d.neg THEN IntMin
  ELSE IF conv = "cvttsd2si" THEN IntMin
  ELSE IF d.cls = "nan" THEN (IF conv = "fcvtzs" THEN 0 ELSE IntMax)
  ELSE IF d.neg THEN IntMin ELSE IntMax

\* data[i] = std::stod(token, &sz[i]), data[i] being an int: ok is FALSE
\* where std::stod throws.
stodInt(conv, token) ==
  With([d \in {stod(token)} |->
  [ok |-> d.ok, sz |-> d.sz, val |-> IF d.ok THEN DoubleToInt(conv, d) ELSE 0]])

\* The lower bounds kMin of UniqueId::UniqueId(const std::string &).
kMin == <<1, 0, 1>>

\* The string constructor that refuses the maximum itself.
UniqueIdFromStringBelowMax(conv, str) ==
  With([tokens \in {split(str, ".")} |->
  IF Len(tokens) # 3 THEN DefaultUniqueId
  ELSE With([data \in {<<stodInt(conv, tokens[1]), stodInt(conv, tokens[2]),
                        stodInt(conv, tokens[3])>>} |->
       IF \E i \in 1..3 : ~data[i].ok THEN DefaultUniqueId
       ELSE IF \E i \in 1..3 : \/ data[i].val < kMin[i]
                               \/ data[i].val >= MaxFieldValue
                               \/ data[i].sz # Len(tokens[i])
       THEN DefaultUniqueId
       ELSE SetZ(SetY(SetX(DefaultUniqueId, data[1].val), data[2].val),
                 data[3].val)])])

\* UniqueId::UniqueId(const std::string &_id)
UniqueIdFromString(conv, str) ==
  With([tokens \in {split(str, ".")} |->
  IF Len(tokens) # 3 THEN DefaultUniqueId
  ELSE With([data \in {<<stodInt(conv, tokens[1]), stodInt(conv, tokens[2]),
                        stodInt(conv, tokens[3])>>} |->
       IF \E i \in 1..3 : ~data[i].ok THEN DefaultUniqueId
       ELSE IF \E i \in 1..3 : \/ data[i].val < kMin[i]
                               \/ data[i].val > MaxFieldValue
                               \/ data[i].sz # Len(tokens[i])
       THEN DefaultUniqueId
       ELSE SetZ(SetY(SetX(DefaultUniqueId, data[1].val), data[2].val),
                 data[3].val)])])

\* The numbers the caller passes: on both sides of each bound.
IdValues == {0 - 1, 0, 1, MaxFieldValue, MaxFieldValue + 1}

\* The strings the caller passes: three numbers of which one varies, two
\* numbers, three numbers and a letter; then fields that std::stod reads
\* and std::stoi would not: "1e2.0.1", "0x10.0.1", "1.-5e-1.1", "1.0.15e-1",
\* form feed and "1.0.1", and the fields whose conversion to int is
\* undefined, "1.nan.1", "1.1e10.1" and "1.-inf.1".
IdStrings ==
  {Id3(v, 0, 1) : v \in IdValues} \cup {Id3(1, v, 1) : v \in IdValues}
  \cup {Id3(1, 0, v) : v \in IdValues}
  \cup {Id2(1, 0), Id3(1, 0, 1) \o <<"x">>}
  \cup {<<"1", "e", "2", ".", "0", ".", "1">>,
        <<"0", "x", "1", "0", ".", "0", ".", "1">>,
        <<"1", ".", "-", "5", "e", "-", "1", ".", "1">>,
        <<"1", ".", "0", ".", "1", "5", "e", "-", "1">>,
        <<"\f", "1", ".", "0", ".", "1">>,
        <<"1", ".", "n", "a", "n", ".", "1">>,
        <<"1", ".", "1", "e", "1", "0", ".", "1">>,
        <<"1", ".", "-", "i", "n", "f", ".", "1">>}

\* The ids the caller assigns from.
IdSources == {<<1, 0, 1>>, <<MaxFieldValue + 1, 0, 1>>, <<0, 0, 0>>}

InitUniqueId ==
  /\ input = [kind |-> "uid"]
  /\ doc = DefaultRNDF
  /\ before = DefaultRNDF
  /\ lane = DefaultLane
  /\ ret = "none"
  /\ cur = NewCursor(InitialLineNumber)
  /\ err = "none"
  /\ path = "none"
  /\ call = NoCall
  /\ uid = DefaultUniqueId
  /\ obj = NoObject
  /\ loaded = NotLoaded
  /\ direct = FALSE

\* UniqueId id(x, y, z)
Construct(x, y, z) ==
  /\ uid' = UniqueId(x, y, z)
  /\ ret' = "none"
  /\ call' = [op |-> "UniqueId", x |-> <<x, y, z>>]
  /\ UNCHANGED <<input, doc, before, lane, cur, err, path, obj, loaded, direct>>

\* UniqueId id(str), in a build that converts with conv
ConstructFromString(conv, str) ==
  /\ uid' = UniqueIdFromString(conv, str)
  /\ ret' = "none"
  /\ call' = [op |-> "UniqueId", x |-> str]
  /\ UNCHANGED <<input, doc, before, lane, cur, err, path, obj, loaded, direct>>

\* UniqueId id(other), other being the object as it stands: the copy
\* constructor goes through the three-int constructor.
CopyConstruct ==
  /\ uid' = UniqueId(uid.x, uid.y, uid.z)
  /\ ret' = "none"
  /\ call' = [op |-> "UniqueId", x |-> uid]
  /\ UNCHANGED <<input, doc, before, lane, cur, err, path, obj, loaded, direct>>

\* id.SetX(v), id.SetY(v), id.SetZ(v)
CallSetX(v) ==
  /\ uid' = SetX(uid, v)
  /\ ret' = Bool(v > 0)
  /\ call' = [op |-> "SetX", x |-> v]
  /\ UNCHANGED <<input, doc, before, lane, cur, err, path, obj, loaded, direct>>

CallSetY(v) ==
  /\ uid' = SetY(uid, v)
  /\ ret' = Bool(v >= 0)
  /\ call' = [op |-> "SetY", x |-> v]
  /\ UNCHANGED <<input, doc, before, lane, cur, err, path, obj, loaded, direct>>

CallSetZ(v) ==
  /\ uid' = SetZ(uid, v)
  /\ ret' = Bool(v > 0)
  /\ call' = [op |-> "SetZ", x |-> v]
  /\ UNCHANGED <<input, doc, before, lane, cur, err, path, obj, loaded, direct>>

\* id = UniqueId(x, y, z)
AssignFrom(x, y, z) ==
  /\ uid' = UniqueIdAssign(uid, UniqueId(x, y, z))
  /\ ret' = "none"
  /\ call' = [op |-> "operator=", x |-> <<x, y, z>>]
  /\ UNCHANGED <<input, doc, before, lane, cur, err, path, obj, loaded, direct>>

\* UniqueId id(other.String()), other being the object as it stands.
ConstructFromOwnString(conv) ==
  /\ uid' = UniqueIdFromString(conv, UniqueIdString(uid))
  /\ ret' = "none"
  /\ call' = [op |-> "String", x |-> uid, str |-> UniqueIdString(uid)]
  /\ UNCHANGED <<input, doc, before, lane, cur, err, path, obj, loaded, direct>>

NextUniqueId ==
  \/ \E x \in IdValues, y \in IdValues, z \in IdValues : Construct(x, y, z)
  \/ \E conv \in Conversions, str \in IdStrings : ConstructFromString(conv, str)
  \/ CopyConstruct
  \/ \E v \in IdValues : CallSetX(v)
  \/ \E v \in IdValues : CallSetY(v)
  \/ \E v \in IdValues : CallSetZ(v)
  \/ \E t \in IdSources : AssignFrom(t[1], t[2], t[3])
  \/ \E conv \in Conversions : ConstructFromOwnString(conv)

SpecUniqueId == InitUniqueId /\ [][NextUniqueId]_vars

\* C13: a UniqueId, however constructed or modified, is valid exactly when
\* 1 <= x <= 32768, 0 <= y <= 32768 and 1 <= z <= 32768.
C13_ValidIffInRange ==
  UniqueIdValid(uid) <=>
    /\ 1 <= uid.x /\ uid.x <= MaxFieldValue
    /\ 0 <= uid.y /\ uid.y <= MaxFieldValue
    /\ 1 <= uid.z /\ uid.z <= MaxFieldValue

(***************************************************************************)
(* Properties of the entities and of AddX, UpdateX and RemoveX.            *)
(***************************************************************************)

\* Waypoint::Id, Lane::Id, Segment::Id, ParkingSpot::Id, Zone::Id and
\* Checkpoint::CheckpointId
IdOf(kind, x) == IF kind = "checkpoint" THEN x.checkpointId ELSE x.id

\* The kinds of entity that carry an id.
IdKinds == {"waypoint", "checkpoint", "lane", "segment", "spot", "zone"}

\* The elements of the container under mutation.
Elements(d, c) ==
  IF HasObject(d, LevelOf(c)) THEN {Get(d, c)[i] : i \in 1..Len(Get(d, c))} ELSE {}

\* C14: for Waypoint, Checkpoint, Lane, Segment, ParkingSpot and Zone,
\* a == b holds exactly when the two ids are equal, whatever else a and b
\* hold; a and b range over the elements of the container and the entities
\* passed to it.
C14_EqualIffSameId ==
  KindOf(input.c) \in IdKinds =>
    \A a, b \in Elements(doc, input.c) \cup Args(input.c) :
      Equal(KindOf(input.c), a, b) <=> IdOf(KindOf(input.c), a) = IdOf(KindOf(input.c), b)

\* C14 over the elements a document holds alone: a zone that holds an
\* invalid spot is an element equal to nothing, itself included.
C14_ElementsEqualIffSameId ==
  KindOf(input.c) \in IdKinds =>
    \A a, b \in Elements(doc, input.c) :
      Equal(KindOf(input.c), a, b) <=> IdOf(KindOf(input.c), a) = IdOf(KindOf(input.c), b)

\* The statement of C14 for the five types other than Zone.
C14_EqualIffSameIdButZone ==
  KindOf(input.c) \in IdKinds \ {"zone"} =>
    \A a, b \in Elements(doc, input.c) \cup Args(input.c) :
      Equal(KindOf(input.c), a, b) <=> IdOf(KindOf(input.c), a) = IdOf(KindOf(input.c), b)

\* An entity equal to x is in the vector, == being taken either way round.
HoldsEqual(kind, v, x) ==
  \E i \in 1..Len(v) : Equal(kind, v[i], x) \/ Equal(kind, x, v[i])

\* What a caller reads from an object: its fields without the capacities of
\* its vectors, which no accessor of the classes returns.
Capacities ==
  {"segmentsCap", "zonesCap", "lanesCap", "waypointsCap", "checkpointsCap",
   "exitsCap", "spotsCap", "pointsCap"}

Fields(x) == [f \in DOMAIN x \ Capacities |-> x[f]]

SegmentContents(s) ==
  Fields([s EXCEPT !.lanes = SubSeq([i \in 1..Len(@) |-> Fields(@[i])], 1, Len(@))])

ZoneContents(z) ==
  Fields([z EXCEPT !.spots = SubSeq([i \in 1..Len(@) |-> Fields(@[i])], 1, Len(@)),
                   !.perimeter = Fields(@)])

Contents(kind, x) ==
  CASE kind \in {"lane", "spot", "perimeter"} -> Fields(x)
    [] kind = "segment" -> SegmentContents(x)
    [] kind = "zone" -> ZoneContents(x)
    [] kind \in {"waypoint", "checkpoint", "stop", "exit"} -> x

ContentsOf(kind, v) == SubSeq([i \in 1..Len(v) |-> Contents(kind, v[i])], 1, Len(v))

\* What C15 says of the last call, an AddX on container c.
AddRejectsOrAppends(c) ==
  With([v \in {Get(before, c)} |->
  IF ~ValidOf(KindOf(c), call.x) \/ HoldsEqual(KindOf(c), v, call.x)
  THEN ret = "false" /\ doc = before
  ELSE /\ ret = "true"
       /\ ContentsOf(KindOf(c), Get(doc, c))
            = ContentsOf(KindOf(c), Append(v, call.x))])

\* C15: every AddX returns false and leaves the collection unchanged when
\* the entity fails its own Valid() or an equal entity is already in the
\* collection; otherwise it appends the entity and returns true.
C15_AddRejectsInvalidAndDuplicates ==
  call.op = "Add" => AddRejectsOrAppends(call.c)

\* The statement of C15 for the containers other than the zones of a
\* document and the waypoints of a parking spot.
C15_AddButZonesAndSpotWaypoints ==
  (call.op = "Add" /\ call.c \notin {"zones", "spotWaypoints"}) =>
    AddRejectsOrAppends(call.c)

\* The statement of C15 for the waypoints of a parking spot.
C15_AddSpotWaypoint ==
  (call.op = "Add" /\ call.c = "spotWaypoints") => AddRejectsOrAppends(call.c)

\* The statement of C15 for the zones of a document.
C15_AddZone ==
  (call.op = "Add" /\ call.c = "zones") => AddRejectsOrAppends(call.c)

\* The indices of the elements e of the vector for which e == x holds.
EqualAt(kind, v, x) == {i \in 1..Len(v) : Equal(kind, v[i], x)}

\* The least index of a set of indices.
First(S) == CHOOSE i \in S : \A j \in S : i <= j

\* C16, as the code has it: an UpdateX returns false and leaves the
\* collection unchanged exactly when no element e with e == x is in it;
\* otherwise it assigns x to the first such element with the element's
\* operator=, leaves the others alone and returns true, whether x is valid
\* or not.
C16_UpdateAssignsToFirstEqual ==
  call.op = "Update" =>
    With([v \in {Get(before, call.c)} |->
    IF EqualAt(KindOf(call.c), v, call.x) = {}
    THEN ret = "false" /\ doc = before
    ELSE /\ ret = "true"
         /\ Len(Get(doc, call.c)) = Len(v)
         /\ \A i \in 1..Len(v) :
              Contents(KindOf(call.c), Get(doc, call.c)[i]) =
                Contents(KindOf(call.c),
                         IF i = First(EqualAt(KindOf(call.c), v, call.x))
                         THEN Assign(KindOf(call.c), v[i], call.x)
                         ELSE v[i])])

\* An UpdateX given an invalid entity has returned true and changed the
\* collection.
C16_Witness ==
  /\ call.op = "Update"
  /\ ~ValidOf(KindOf(call.c), call.x)
  /\ ret = "true"
  /\ ContentsOf(KindOf(call.c), Get(doc, call.c))
       # ContentsOf(KindOf(call.c), Get(before, call.c))

\* C16: every UpdateX returns false and leaves the collection unchanged
\* when the entity fails its own Valid(), and when no element equal to it
\* is in the collection.
C16_UpdateRejectsInvalidAndMissing ==
  (/\ call.op = "Update"
   /\ \/ ~ValidOf(KindOf(call.c), call.x)
      \/ ~HoldsEqual(KindOf(call.c), Get(before, call.c), call.x)) =>
    ret = "false" /\ doc = before

\* The second half of C16 alone: no equal element, no update.
C16_UpdateRejectsMissing ==
  (/\ call.op = "Update"
   /\ ~HoldsEqual(KindOf(call.c), Get(before, call.c), call.x)) =>
    ret = "false" /\ doc = before

\* No two elements of the vector carry the same id.
UniqueIds(kind, v) ==
  \A i, j \in 1..Len(v) : IdOf(kind, v[i]) = IdOf(kind, v[j]) => i = j

\* C17: after any sequence of AddZone, UpdateZone and RemoveZone calls the
\* document never holds two zones with the same id, and likewise for the
\* segments, lanes, spots, waypoints and checkpoints in their containers.
\* The sequences are those in which no id was written into a stored element
\* by Waypoints()[0].SetId and the like.
C17_NoTwoElementsWithSameId ==
  (/\ KindOf(input.c) \in IdKinds
   /\ HasObject(doc, LevelOf(input.c))
   /\ ~direct) =>
    UniqueIds(KindOf(input.c), Get(doc, input.c))

\* The statement of C17 for the containers other than the zones.
C17_NoTwoElementsWithSameIdButZones ==
  (/\ KindOf(input.c) \in IdKinds \ {"zone"}
   /\ HasObject(doc, LevelOf(input.c))
   /\ ~direct) =>
    UniqueIds(KindOf(input.c), Get(doc, input.c))

\* AddZone returns false whenever a zone with the id is in the document.
C17_AddZoneRejectsExistingId ==
  (/\ call.op = "Add"
   /\ call.c = "zones"
   /\ \E i \in 1..Len(before.zones) : before.zones[i].id = call.x.id) =>
    ret = "false"

\* Whether an element is the one a RemoveX names: the element with the id,
\* the stop with the waypoint id, the exit equal to the exit given.
Named(kind, e, id) ==
  CASE kind \in IdKinds -> IdOf(kind, e) = id
    [] kind = "stop" -> e = id
    [] kind = "exit" -> ExitEq(e, id)

\* The elements of a vector that a RemoveX does not name, in their order.
Others(kind, v, id) == SelectSeq(v, LAMBDA e : ~Named(kind, e, id))

\* C18: RemoveX(id) returns true exactly when an element with that id was
\* in the collection before the call; after the call no element with that
\* id is in the collection, and all other elements are kept in their
\* original relative order.
C18_RemoveTakesOutTheId ==
  call.op = "Remove" =>
    With([v \in {Get(before, call.c)} |->
    /\ ret = "true" <=> \E i \in 1..Len(v) : Named(KindOf(call.c), v[i], call.x)
    /\ ContentsOf(KindOf(call.c), Get(doc, call.c))
         = ContentsOf(KindOf(call.c), Others(KindOf(call.c), v, call.x))])

\* The statement of C18 about the collection alone, whatever is returned.
C18_RemoveLeavesTheOthers ==
  call.op = "Remove" =>
    ContentsOf(KindOf(call.c), Get(doc, call.c))
      = ContentsOf(KindOf(call.c),
                   Others(KindOf(call.c), Get(before, call.c), call.x))

\* The statement of C18 about the collection, for the containers other than
\* the zones and the spots.
C18_RemoveLeavesTheOthersButZonesAndSpots ==
  (call.op = "Remove" /\ call.c \notin {"zones", "spots"}) =>
    ContentsOf(KindOf(call.c), Get(doc, call.c))
      = ContentsOf(KindOf(call.c),
                   Others(KindOf(call.c), Get(before, call.c), call.x))

\* The ids of the elements of a vector, in order.
IdsOf(kind, v) == [i \in 1..Len(v) |-> IdOf(kind, v[i])]

\* RemoveSpot leaves the ids of the other spots, in their order; what else
\* a spot holds is not always kept.
C18_RemoveSpotLeavesTheOtherIds ==
  (call.op = "Remove" /\ call.c = "spots") =>
    IdsOf("spot", doc.zones[1].spots) =
      IdsOf("spot", Others("spot", before.zones[1].spots, call.x))

\* RemoveZone takes out every zone with the id.
C18_RemoveZoneLeavesNoSuchId ==
  (call.op = "Remove" /\ call.c = "zones") =>
    \A i \in 1..Len(doc.zones) : doc.zones[i].id # call.x

\* A RemoveX that returns true has removed an element.
C18_TrueOnlyWhenRemoved ==
  (call.op = "Remove" /\ ret = "true") =>
    Len(Get(doc, call.c)) < Len(Get(before, call.c))

\* The ids Info is asked about.
MaxProbe == 3

ProbeIds ==
  {UniqueId(x, y, z) : x \in 1..MaxProbe, y \in 0..MaxProbe, z \in 1..MaxProbe}

\* C19: once the index has been built by a successful Load, no Add, Remove
\* or Update on the tree changes it: after any sequence of such calls the
\* ids for which Info returns an entry are those for which it did right
\* after the Load.
C19_IndexKeptByMutations ==
  (path = "b" /\ call.op \in {"Add", "Update", "Remove"}) =>
    /\ loaded.ret
    /\ DOMAIN doc.cache = DOMAIN loaded.doc.cache
    /\ \A id \in ProbeIds : Info(doc, id) = {} <=> Info(loaded.doc, id) = {}

\* A loaded document has taken a second zone, whose perimeter point 3.0.1
\* Info does not find.
C19_Witness ==
  /\ path = "b"
  /\ call.op = "Add"
  /\ ret = "true"
  /\ Len(doc.zones) = 2
  /\ doc.zones[2].id = 3
  /\ doc.zones[2].perimeter.points[1].id = 1
  /\ Info(doc, UniqueId(2, 0, 1)) # {}
  /\ Info(doc, UniqueId(3, 0, 1)) = {}

(***************************************************************************)
(* Properties of the checkpoints, stops and exits of a loaded lane.        *)
(***************************************************************************)

\* No two elements of the vector are equal, == being that of the kind.
NoTwoEqual(kind, v) ==
  \A i, j \in 1..Len(v) : Equal(kind, v[i], v[j]) => i = j

\* C20: in every Lane produced by a successful load, the checkpoints are
\* unique by checkpointId, the stop waypoint-ids are unique, and the exits
\* are unique by equality, including when the file repeats the same
\* checkpoint, stop or exit line.
C20_LoadedLaneHoldsNoDuplicates ==
  (input.kind = "lane" /\ ret = "true") =>
    /\ NoTwoEqual("checkpoint", lane.checkpoints)
    /\ NoTwoEqual("stop", lane.stops)
    /\ NoTwoEqual("exit", lane.exits)

\* The statement of C20 for the checkpoints alone.
C20_LoadedCheckpointsUnique ==
  (input.kind = "lane" /\ ret = "true") => NoTwoEqual("checkpoint", lane.checkpoints)

\* The statement of C20 for the stops alone.
C20_LoadedStopsUnique ==
  (input.kind = "lane" /\ ret = "true") => NoTwoEqual("stop", lane.stops)

\* The statement of C20 for the exits alone.
C20_LoadedExitsUnique ==
  (input.kind = "lane" /\ ret = "true") => NoTwoEqual("exit", lane.exits)

(***************************************************************************)
(* An entity object on its own, under assignment and copy construction.    *)
(***************************************************************************)

\* Perimeter::operator==: the sizes agree, and std::find finds every point
\* and every exit of a in b.
PerimeterEq(a, b) ==
  /\ Len(a.points) = Len(b.points)
  /\ Len(a.exits) = Len(b.exits)
  /\ \A i \in 1..Len(a.points) : \E j \in 1..Len(b.points) :
       WaypointEq(b.points[j], a.points[i])
  /\ \A i \in 1..Len(a.exits) : \E j \in 1..Len(b.exits) :
       ExitEq(b.exits[j], a.exits[i])

\* The entity types.
EntityTypes ==
  {"uniqueId", "checkpoint", "waypoint", "exit", "lane", "segment", "spot",
   "perimeter", "zone"}

\* a == b
EntityEqual(type, a, b) ==
  CASE type = "uniqueId" -> UniqueIdEq(a, b)
    [] type = "perimeter" -> PerimeterEq(a, b)
    [] type \notin {"uniqueId", "perimeter"} -> Equal(type, a, b)

\* a = b
EntityAssign(type, a, b) ==
  CASE type = "uniqueId" -> UniqueIdAssign(a, b)
    [] type # "uniqueId" -> Assign(type, a, b)

\* T c(a): UniqueId(const UniqueId &) goes through the constructor from
\* three ints.
EntityCopy(type, a) ==
  CASE type = "uniqueId" -> UniqueId(a.x, a.y, a.z)
    [] type # "uniqueId" -> Copy(type, a)

\* The default-constructed entity.
EntityDefault(type) ==
  CASE type = "uniqueId" -> DefaultUniqueId
    [] type = "checkpoint" -> DefaultCheckpoint
    [] type = "waypoint" -> DefaultWaypoint
    [] type = "exit" -> DefaultExit
    [] type = "lane" -> DefaultLane
    [] type = "segment" -> DefaultSegment
    [] type = "spot" -> DefaultParkingSpot
    [] type = "perimeter" -> DefaultPerimeter
    [] type = "zone" -> DefaultZone

\* b.Valid()
EntityValid(type, b) ==
  CASE type = "uniqueId" -> UniqueIdValid(b)
    [] type = "perimeter" -> PerimeterValid(b)
    [] type \notin {"uniqueId", "perimeter"} -> ValidOf(type, b)

\* The entities assigned from: the default one, valid ones, and ones built
\* through the mutable accessors.
EntityValues(type) ==
  {EntityDefault(type)} \cup
  CASE type = "uniqueId" -> {UniqueId(1, 0, 1), UniqueId(2, 1, 3)}
    [] type = "checkpoint" ->
         {[checkpointId |-> 1, waypointId |-> 2], [checkpointId |-> 2, waypointId |-> 1]}
    [] type = "waypoint" -> {W1, W2, ArgWaypoint(1, OtherLat)}
    [] type = "exit" ->
         {ArgExit(UniqueId(1, 1, 2), UniqueId(2, 0, 1)),
          ArgExit(UniqueId(2, 0, 2), UniqueId(1, 1, 1))}
    [] type = "lane" -> {ArgLane(1, <<W1>>), ArgLane(2, <<W1, W2>>), ArgLane(1, <<>>)}
    [] type = "segment" ->
         {ArgSegment(1, <<ArgLane(1, <<W1>>)>>), ArgSegment(2, <<ArgLane(1, <<W1>>)>>),
          ArgSegment(1, <<>>)}
    [] type = "spot" ->
         {ArgSpot(1, <<W1, W2>>, 0), ArgSpot(2, <<W1, W2>>, 5), ArgSpot(1, <<W1>>, 0)}
    [] type = "perimeter" ->
         {ArgPerimeter(<<W1>>, <<>>),
          ArgPerimeter(<<W1, W2>>,
                       <<ArgExit(UniqueId(2, 0, 2), UniqueId(1, 1, 1))>>),
          ArgPerimeter(<<DefaultWaypoint>>, <<>>),
          ArgPerimeter(<<W1>>, <<DefaultExit>>)}
    [] type = "zone" ->
         {ArgZone(2, <<W1>>, <<>>), ArgZone(3, <<W1>>, <<ArgSpot(1, <<W1, W2>>, 0)>>),
          ArgZone(2, <<W1>>, <<ArgSpot(1, <<W1>>, 0)>>)}

AssignInputs == {[kind |-> "assign", type |-> t] : t \in EntityTypes}

\* T a(...): an object of the type exists.
InitAssign ==
  /\ input \in AssignInputs
  /\ doc = DefaultRNDF
  /\ before = DefaultRNDF
  /\ lane = DefaultLane
  /\ ret = "none"
  /\ cur = NewCursor(InitialLineNumber)
  /\ err = "none"
  /\ path = "none"
  /\ call = NoCall
  /\ uid = DefaultUniqueId
  /\ obj \in EntityValues(input.type)
  /\ loaded = NotLoaded
  /\ direct = FALSE

\* a = b
AssignObject(b) ==
  /\ obj' = EntityAssign(input.type, obj, b)
  /\ call' = [op |-> "operator=", x |-> b]
  /\ UNCHANGED <<input, doc, before, lane, ret, cur, err, path, uid, loaded, direct>>

\* T c(a), c then being the object.
CopyObject ==
  /\ obj' = EntityCopy(input.type, obj)
  /\ call' = [op |-> "copy", x |-> obj]
  /\ UNCHANGED <<input, doc, before, lane, ret, cur, err, path, uid, loaded, direct>>

NextAssign ==
  \/ \E b \in EntityValues(input.type) : AssignObject(b)
  \/ CopyObject

SpecAssign == InitAssign /\ [][NextAssign]_vars

\* C21: after the assignment a = b, a == b holds, for every entity type and
\* every pair of values a and b, including a default-constructed or
\* otherwise invalid b.
C21_AssignedThenEqual ==
  call.op = "operator=" => EntityEqual(input.type, obj, call.x)

\* The statement of C21 for a valid b.
C21_AssignedValidThenEqual ==
  (call.op = "operator=" /\ EntityValid(input.type, call.x)) =>
    EntityEqual(input.type, obj, call.x)

\* The types for which an assignment from some b has left a # b.
C21_AssignedThenEqualButUniqueId ==
  (call.op = "operator=" /\ input.type # "uniqueId") =>
    EntityEqual(input.type, obj, call.x)

(***************************************************************************)
(* Properties of the string form of a UniqueId.                            *)
(***************************************************************************)

\* x in [1, 32768], y in [0, 32768], z in [1, 32768]
InRange(id) ==
  /\ 1 <= id.x /\ id.x <= MaxFieldValue
  /\ 0 <= id.y /\ id.y <= MaxFieldValue
  /\ 1 <= id.z /\ id.z <= MaxFieldValue

\* C22: for all x in [1, 32768], y in [0, 32768], z in [1, 32768],
\* constructing a UniqueId from the string that String() produces of
\* UniqueId(x, y, z) yields a UniqueId equal to UniqueId(x, y, z).
C22_StringRoundTrip ==
  (call.op = "String" /\ InRange(call.x)) => UniqueIdEq(uid, call.x)

\* The id 32768.0.32768 has been written out and read back.
C22_Witness ==
  /\ call.op = "String"
  /\ call.x = UniqueId(MaxFieldValue, 0, MaxFieldValue)
  /\ call.str = Id3(MaxFieldValue, 0, MaxFieldValue)
  /\ UniqueIdValid(uid)

\* Outside the range the string is refused and the default id results.
C22_OutOfRangeIsNotRead ==
  (call.op = "String" /\ ~InRange(call.x)) => uid = DefaultUniqueId

(***************************************************************************)
(* Documents whose blocks declare one number of children and hold another. *)
(***************************************************************************)

InitCount ==
  /\ input \in CountInputs
  /\ doc = DefaultRNDF
  /\ before = DefaultRNDF
  /\ lane = DefaultLane
  /\ ret = "none"
  /\ cur = NewCursor(InitialLineNumber)
  /\ err = "none"
  /\ path = "none"
  /\ call = NoCall
  /\ uid = DefaultUniqueId
  /\ obj = NoObject
  /\ loaded = NotLoaded
  /\ direct = FALSE

SpecCount == InitCount /\ [][Next]_vars

\* C23: a block load succeeds only if the block body holds exactly the
\* declared number of child entries (num_segments, num_zones, num_lanes,
\* num_waypoints, num_spots, num_perimeterpoints): one entry fewer or one
\* entry more than declared makes the load fail.
C23_LoadTrueThenCountsAgree ==
  (input.kind = "count" /\ path = "a" /\ ret = "true") =>
    input.declared = input.actual

\* A document that declares two children and holds two has loaded.
C23_Witness ==
  /\ input.kind = "count"
  /\ input.level = "num_lanes"
  /\ input.declared = 2
  /\ input.actual = 2
  /\ path = "a"
  /\ ret = "true"
  /\ Len(doc.segments[1].lanes) = 2

\* The counts that agree and are accepted: any number of zones and of
\* spots, one or more of the others.
C23_AgreeingCountsLoad ==
  (/\ input.kind = "count"
   /\ path = "a"
   /\ input.declared = input.actual
   /\ input.actual > 0 \/ input.level \in {"num_zones", "num_spots"}) =>
    ret = "true"

(***************************************************************************)
(* The exit flag of perimeter points                                       *)
(***************************************************************************)

MaxPoints == 3

MaxExits == 2

PerimeterZone == 2

ExitLine(exitId, entryId) == kw_exit \o SP \o exitId \o SP \o entryId

\* Exit lines of the perimeter of zone 2: from a point it holds, from a point
\* it may not hold, to either of two entries, and one of another zone.
ExitLines ==
  { ExitLine(Id3(PerimeterZone, 0, 1), Id3(1, 1, 1)),
    ExitLine(Id3(PerimeterZone, 0, 1), Id3(1, 1, 2)),
    ExitLine(Id3(PerimeterZone, 0, 2), Id3(1, 1, 1)),
    ExitLine(Id3(PerimeterZone, 0, MaxPoints + 1), Id3(1, 1, 1)),
    ExitLine(Id3(PerimeterZone + 1, 0, 1), Id3(1, 1, 1)) }

PerimeterInputs ==
  {in \in [kind : {"perimeter"}, points : 1..MaxPoints,
           exits : UNION {[1..n -> ExitLines] : n \in 0..MaxExits}] : TRUE}

PerimeterFile(in) ==
  << Line2(kw_perimeter, Id2(PerimeterZone, 0)),
     Line2(kw_num_perimeterpoints, to_string(in.points)) >>
  \o in.exits
  \o WaypointLines(PerimeterZone, 0, in.points)
  \o <<kw_end_perimeter>>

InitPerimeter ==
  /\ input \in PerimeterInputs
  /\ doc = DefaultRNDF
  /\ before = DefaultRNDF
  /\ lane = DefaultLane
  /\ ret = "none"
  /\ cur = NewCursor(0)
  /\ err = "none"
  /\ path = "none"
  /\ call = NoCall
  /\ uid = DefaultUniqueId
  /\ obj = NoObject
  /\ loaded = NotLoaded
  /\ direct = FALSE

\* Perimeter::Load on a fresh perimeter and a freshly opened stream.
LoadPerimeter ==
  \E r \in {PerimeterLoad(DefaultPerimeter, PerimeterFile(input),
                          PerimeterZone, NewCursor(0))} :
     /\ ret' = Bool(r.ok)
     /\ cur' = r.cur
     /\ err' = (IF r.ok THEN "none" ELSE r.err)
     /\ path' = "perimeter"
     /\ obj' = (IF r.ok THEN r.perimeter ELSE NoObject)
     /\ UNCHANGED <<input, doc, before, lane, call, uid, loaded, direct>>

NextPerimeter == LoadPerimeter

SpecPerimeter == InitPerimeter /\ [][NextPerimeter]_vars

\* C24: after a successful perimeter load, a perimeter point has its exit
\* flag set if and only if its compound id zoneId.0.pointId is the exit id
\* of some exit recorded in the header of that perimeter.
C24_FlagIffHeaderExit ==
  (path = "perimeter" /\ ret = "true") =>
    \A k \in 1..Len(obj.points) :
       IsExit(obj.points[k]) <=>
         \E i \in 1..Len(obj.exits) :
            UniqueIdString(obj.exits[i].exit)
              = Id3(PerimeterZone, 0, obj.points[k].id)

\* After a successful perimeter load no point of the perimeter has its exit
\* flag set, whatever the exits of the header.
C24_NoStoredPointFlagged ==
  (path = "perimeter" /\ ret = "true") =>
    \A k \in 1..Len(obj.points) : ~IsExit(obj.points[k])

\* The number of times std::getline has extracted physical line k.
Fetches(reads, k) == Cardinality({i \in 1..Len(reads) : reads[i] = k})

\* C25: during any Load every physical line of the file is fetched at most
\* twice (once by a header scan that backtracks and once by the phase that
\* follows), so a Load ends after at most twice as many line reads as the
\* file has lines.
C25_LineFetchedAtMostTwice ==
  path \in {"a", "b"} =>
    /\ \A k \in 1..Len(LoadedFile) : Fetches(cur.reads, k) <= 2
    /\ \A i \in 1..Len(cur.reads) : cur.reads[i] \in 1..Len(LoadedFile)
    /\ Len(cur.reads) <= 2 * Len(LoadedFile)

\* The full document has loaded: the first waypoint line of its lane was
\* fetched by the scan of the lane header and again by the waypoint, and
\* the document's first line once.
C25_Witness ==
  /\ path = "b"
  /\ ret = "true"
  /\ \E k \in 1..Len(FullFile) :
        /\ FullFile[k] = WaypointLine(1, 1, 1)
        /\ Fetches(cur.reads, k) = 2
  /\ Fetches(cur.reads, 1) = 1
  /\ Len(cur.reads) > Len(FullFile)

\* The same count for a block loaded on its own, whatever the file.
C25_BlockLineFetchedAtMostTwice ==
  \A k \in 1..Len(cur.reads) : Fetches(cur.reads, cur.reads[k]) <= 2

\* C26: after every successful Load, also of a document that had loaded
\* another file before, Info(id) returns an entry only for the ids present
\* in the current tree: no entry of an earlier Load survives.
C26_InfoOnlyForPresentIds ==
  ret = "true" =>
    \A id \in LookupIds : Info(doc, id) # {} => id \in PresentIds(doc)

\* After every successful Load every id of the current tree has its entry.
C26_PresentIdsHaveInfo ==
  ret = "true" =>
    \A id \in LookupIds :
       id \in PresentIds(doc) => \E n \in Info(doc, id) : n.uniqueId = id

\* What a caller can read from a document: the fields without the
\* capacity of the vectors and without the index.
Tree(d) ==
  [name |-> d.name, version |-> d.version, date |-> d.date,
   segments |-> ContentsOf("segment", d.segments),
   zones |-> ContentsOf("zone", d.zones)]

\* C27: a successful Load on a document that had loaded another file before
\* yields the tree that loading the same file into a freshly constructed
\* document yields: no field value of the earlier load survives.
C27_ReloadYieldsFreshTree ==
  (ret = "true" /\ path \in {"a", "b"}) =>
    Tree(doc) = Tree(RNDFLoad(DefaultRNDF, input, path).doc)

\* The same for everything but the spots: name, version, date, segments and
\* the id, name and perimeter of every zone, and the id and waypoints of
\* every spot.
C27_ReloadYieldsFreshTreeButSpotHeaders ==
  (ret = "true" /\ path \in {"a", "b"}) =>
    With([fresh \in {RNDFLoad(DefaultRNDF, input, path).doc} |->
      /\ doc.name = fresh.name
      /\ doc.version = fresh.version
      /\ doc.date = fresh.date
      /\ ContentsOf("segment", doc.segments)
           = ContentsOf("segment", fresh.segments)
      /\ Len(doc.zones) = Len(fresh.zones)
      /\ \A i \in 1..Len(doc.zones) :
           /\ doc.zones[i].id = fresh.zones[i].id
           /\ doc.zones[i].name = fresh.zones[i].name
           /\ Fields(doc.zones[i].perimeter) = Fields(fresh.zones[i].perimeter)
           /\ Len(doc.zones[i].spots) = Len(fresh.zones[i].spots)
           /\ \A j \in 1..Len(doc.zones[i].spots) :
                /\ doc.zones[i].spots[j].id = fresh.zones[i].spots[j].id
                /\ doc.zones[i].spots[j].waypoints
                     = fresh.zones[i].spots[j].waypoints])

(***************************************************************************)
(* Load called on an object that already holds values                      *)
(***************************************************************************)

FrameLevels ==
  {"document", "segment", "lane", "zone", "perimeter", "spot", "waypoint",
   "exit"}

\* The lines a waypoint and an exit are loaded from: well formed, of another
\* lane, short, and with a field that is not a number.
WaypointFiles ==
  << WaypointLine(1, 1, 1), WaypointLine(1, 2, 1), Id3(1, 1, 1) \o SP \o Lat,
     Id3(1, 1, 0) \o SP \o Lat \o SP \o Lon, Foreign,
     Id3(1, 1, 1) \o SP \o Foreign >>

ExitFiles ==
  << ExitLine(Id3(1, 1, 2), Id3(2, 0, 1)), ExitLine(Id3(1, 2, 2), Id3(2, 0, 1)),
     ExitLine(Id3(1, 1, 2), Id2(2, 0)), ExitLine(Id3(1, 1, 2), Id3(2, 0, 0)),
     ExitLine(Id3(1, 1, 0), Id3(2, 0, 1)), Foreign >>

\* The inputs for the given levels.  used: the object has held values
\* before the call, or is fresh.
FrameInputs(levels) ==
  {[kind |-> "frame", level |-> b.block, block |-> b.block, edit |-> b.edit,
    at |-> b.at, used |-> u] :
      b \in {x \in BlockInputs : x.start = 0 /\ x.block \in levels},
      u \in BOOLEAN}
  \cup {[kind |-> "frame", level |-> l, block |-> l, edit |-> "none",
         at |-> k, used |-> u] :
          l \in {"waypoint", "exit"} \cap levels, k \in 1..Len(WaypointFiles),
          u \in BOOLEAN}
  \cup {[kind |-> "frame", level |-> l, block |-> l, edit |-> e, at |-> k,
         used |-> u] :
          l \in {"document"} \cap levels, e \in {"none", "del", "foreign"},
          k \in {1, 4, 9, 18, 26, 39}, u \in BOOLEAN}

\* The document input an edit of the full document stands for.
FrameDocument(in) ==
  [kind |-> (IF in.edit = "foreign" THEN "ins" ELSE in.edit), base |-> "full",
   at |-> in.at, segIds |-> <<>>, zoneIds |-> <<>>]

FrameFile(in) ==
  CASE in.level = "waypoint" -> <<WaypointFiles[in.at]>>
    [] in.level = "exit" -> <<ExitFiles[in.at]>>
    [] in.level = "document" -> FileOf(FrameDocument(in))
    [] OTHER -> BlockFile(in)

\* The object Load is called on: as constructed, or holding values that are
\* not those of the file.
FrameObject(in) ==
  CASE in.level = "document" ->
         IF in.used
         THEN RNDFLoad(DefaultRNDF,
                [kind |-> "gen", base |-> "gen", at |-> 0, segIds |-> <<1, 2>>,
                 zoneIds |-> <<3>>], "a").doc
         ELSE DefaultRNDF
    [] in.level = "segment" ->
         IF in.used THEN ArgSegment(2, <<ArgLane(1, <<W1>>)>>) ELSE DefaultSegment
    [] in.level = "lane" ->
         IF in.used THEN ArgLane(2, <<W1, W2, W3>>) ELSE DefaultLane
    [] in.level = "zone" ->
         IF in.used THEN ArgZone(3, <<W1>>, <<ArgSpot(1, <<W1, W2>>, 5)>>)
         ELSE DefaultZone
    [] in.level = "perimeter" ->
         IF in.used THEN ArgPerimeter(<<W1, W2, W3>>, <<>>)
         ELSE DefaultPerimeter
    [] in.level = "spot" ->
         IF in.used THEN ArgSpot(2, <<W1, W2>>, 5) ELSE DefaultParkingSpot
    [] in.level = "waypoint" ->
         IF in.used THEN ArgWaypoint(2, OtherLat) ELSE DefaultWaypoint
    [] in.level = "exit" ->
         IF in.used THEN ArgExit(UniqueId(1, 1, 1), UniqueId(1, 2, 1))
         ELSE DefaultExit

\* What the object holds when its Load returns.  Every Load but Exit::Load
\* parses into locals and returns false before the statements that populate
\* the object; Exit::Load hands the object to parseExit.
LoadOn(in, this) ==
  CASE in.level = "document" ->
         With([r \in {RNDFLoad(this, FrameDocument(in), "a")} |->
           [ok |-> r.ret, cur |-> r.cur, object |-> r.doc]])
    [] in.level = "segment" ->
         With([r \in {SegmentLoad(this, FrameFile(in), NewCursor(0))} |->
           [ok |-> r.ok, cur |-> r.cur,
            object |-> IF r.ok THEN r.segment ELSE this]])
    [] in.level = "lane" ->
         With([r \in {LaneLoad(this, FrameFile(in), 1, NewCursor(0))} |->
           [ok |-> r.ok, cur |-> r.cur,
            object |-> IF r.ok THEN r.lane ELSE this]])
    [] in.level = "zone" ->
         With([r \in {ZoneLoad(this, FrameFile(in), NewCursor(0))} |->
           [ok |-> r.ok, cur |-> r.cur,
            object |-> IF r.ok THEN r.zone ELSE this]])
    [] in.level = "perimeter" ->
         With([r \in {PerimeterLoad(this, FrameFile(in), 2, NewCursor(0))} |->
           [ok |-> r.ok, cur |-> r.cur,
            object |-> IF r.ok THEN r.perimeter ELSE this]])
    [] in.level = "spot" ->
         With([r \in {ParkingSpotLoad(this, FrameFile(in), 2, NewCursor(0))} |->
           [ok |-> r.ok, cur |-> r.cur,
            object |-> IF r.ok THEN r.spot ELSE this]])
    [] in.level = "waypoint" ->
         With([r \in {WaypointLoad(FrameFile(in), 1, 1, NewCursor(0))} |->
           [ok |-> r.ok, cur |-> r.cur,
            object |-> IF r.ok THEN r.waypoint ELSE this]])
    [] in.level = "exit" ->
         With([r \in {ExitLoad(this, FrameFile(in), 1, 1, NewCursor(0), <<>>)} |->
           [ok |-> r.ok, cur |-> r.cur, object |-> r.exit]])

InitFrame ==
  /\ input \in FrameInputs(FrameLevels)
  /\ doc = DefaultRNDF
  /\ before = DefaultRNDF
  /\ lane = DefaultLane
  /\ ret = "none"
  /\ cur = NewCursor(0)
  /\ err = "none"
  /\ path = "none"
  /\ call = NoCall
  /\ uid = DefaultUniqueId
  /\ obj = FrameObject(input)
  /\ loaded = NotLoaded
  /\ direct = FALSE

\* The Load of the input's level, called on the object.
LoadObject ==
  \E r \in {LoadOn(input, obj)} :
     /\ obj' = r.object
     /\ call' = [op |-> "Load", x |-> obj]
     /\ ret' = Bool(r.ok)
     /\ cur' = r.cur
     /\ path' = "frame"
     /\ UNCHANGED <<input, doc, before, lane, err, uid, loaded, direct>>

NextFrame == LoadObject

SpecFrame == InitFrame /\ [][NextFrame]_vars

\* C28: a Load that returns false, at any level (document, segment, lane,
\* zone, perimeter, spot, waypoint, exit), leaves the object it was called
\* on exactly as it was before the call.
C28_FailedLoadLeavesObject ==
  (path = "frame" /\ ret = "false") => obj = call.x

\* An exit that held values was loaded from a line whose exit id reads and
\* whose entry id does not, and still holds them; so does a lane whose
\* block lacks its last line.
C28_Witness ==
  /\ path = "frame"
  /\ ret = "false"
  /\ input.used
  /\ \/ /\ input.level = "exit"
        /\ FrameFile(input) = <<ExitLine(Id3(1, 1, 2), Id2(2, 0))>>
        /\ obj = ArgExit(UniqueId(1, 1, 1), UniqueId(1, 2, 1))
     \/ /\ input.level = "lane"
        /\ cur.line > 5
        /\ obj = ArgLane(2, <<W1, W2, W3>>)

(***************************************************************************)
(* Lanes whose header refers to waypoints                                  *)
(***************************************************************************)

MaxRef == 3

MaxRefWaypoints == 2

MaxRefDirectives == 2

RefKinds == {"checkpoint", "stop", "exit"}

\* A checkpoint, a stop or an exit of lane 1.1 at waypoint z.
RefDirective(what, z) ==
  CASE what = "checkpoint" ->
         Line2(kw_checkpoint,
               Id3(LaneSegmentId, LaneId, z) \o SP \o to_string(z))
    [] what = "stop" -> Line2(kw_stop, Id3(LaneSegmentId, LaneId, z))
    [] what = "exit" ->
         ExitLine(Id3(LaneSegmentId, LaneId, z), Id3(2, 0, 1))

RefInputs ==
  {[kind |-> "refs", waypoints |-> n, refs |-> r] :
     n \in 1..MaxRefWaypoints,
     r \in SeqsUpTo([what : RefKinds, z : 1..MaxRef], 0, MaxRefDirectives)}

\* A lane block of the given number of waypoints with the directives in
\* its header.
RefFile(in) ==
  << Line2(kw_lane, Id2(LaneSegmentId, LaneId)),
     Line2(kw_num_waypoints, to_string(in.waypoints)) >>
  \o [i \in 1..Len(in.refs) |-> RefDirective(in.refs[i].what, in.refs[i].z)]
  \o WaypointLines(LaneSegmentId, LaneId, in.waypoints)
  \o <<kw_end_lane>>

InitRefs ==
  /\ input \in RefInputs
  /\ doc = DefaultRNDF
  /\ before = DefaultRNDF
  /\ lane = DefaultLane
  /\ ret = "none"
  /\ cur = NewCursor(0)
  /\ err = "none"
  /\ path = "none"
  /\ call = NoCall
  /\ uid = DefaultUniqueId
  /\ obj = NoObject
  /\ loaded = NotLoaded
  /\ direct = FALSE

\* Lane::Load on a freshly opened stream with the counter at 0.
LoadLaneRefs ==
  \E r \in {LaneLoad(lane, RefFile(input), LaneSegmentId, NewCursor(0))} :
     /\ lane' = (IF r.ok THEN r.lane ELSE lane)
     /\ ret' = Bool(r.ok)
     /\ cur' = r.cur
     /\ err' = (IF r.ok THEN "none" ELSE r.err)
     /\ path' = "refs"
     /\ UNCHANGED <<input, doc, before, call, uid, obj, loaded, direct>>

NextRefs == LoadLaneRefs

SpecRefs == InitRefs /\ [][NextRefs]_vars

\* The waypoint indices a lane's header refers to.
ReferredWaypoints(l) ==
  {l.checkpoints[i].waypointId : i \in 1..Len(l.checkpoints)}
  \cup {l.stops[i] : i \in 1..Len(l.stops)}
  \cup {l.exits[i].exit.z : i \in 1..Len(l.exits)}

\* C29: in every lane a successful load produces, each checkpoint's waypoint
\* id, each stop id and the waypoint index of each exit's origin id lies
\* between 1 and the lane's number of waypoints.
C29_RefersToExistingWaypoint ==
  (path = "refs" /\ ret = "true") =>
    \A z \in ReferredWaypoints(lane) : z \in 1..Len(lane.waypoints)

\* What the parsers do check: the index is between 1 and 32768.
C29_RefersToPositiveIndex ==
  (path = "refs" /\ ret = "true") =>
    \A z \in ReferredWaypoints(lane) : z \in 1..MaxFieldValue

\* Each of the three kinds on its own.
C29_CheckpointAtExistingWaypoint ==
  (path = "refs" /\ ret = "true") =>
    \A i \in 1..Len(lane.checkpoints) :
       lane.checkpoints[i].waypointId <= Len(lane.waypoints)

C29_StopAtExistingWaypoint ==
  (path = "refs" /\ ret = "true") =>
    \A i \in 1..Len(lane.stops) : lane.stops[i] <= Len(lane.waypoints)

C29_ExitFromExistingWaypoint ==
  (path = "refs" /\ ret = "true") =>
    \A i \in 1..Len(lane.exits) : lane.exits[i].exit.z <= Len(lane.waypoints)

(***************************************************************************)
(* Waypoint::Load and its assertion                                        *)
(***************************************************************************)

MaxTokens == 5

\* The builds: assert is checked unless NDEBUG is defined.
Builds == {"debug", "release"}

NotANumber == <<"x", "x", "x">>

\* Coordinates that std::stod reads as infinity, and that it refuses as out
\* of the range of a double.
Infinite == <<"i", "n", "f">>

TooLarge == <<"1", "e", "9", "9", "9">>

\* The first token of a waypoint line: the id of a waypoint of lane 1.1, of
\* another lane, an id out of range and a word.
FirstTokens ==
  {Id3(LaneSegmentId, LaneId, 1), Id3(LaneSegmentId, LaneId + 1, 1),
   Id3(LaneSegmentId, LaneId, 0), NotANumber}

RECURSIVE JoinTokens(_)
JoinTokens(tokens) ==
  IF Len(tokens) = 0 THEN <<>>
  ELSE IF Len(tokens) = 1 THEN tokens[1]
  ELSE tokens[1] \o SP \o JoinTokens(Tail(tokens))

\* Lines of no token up to MaxTokens tokens.
WaypointInputs ==
  {[kind |-> "waypoint", build |-> b, tokens |-> <<>>] : b \in Builds}
  \cup {[kind |-> "waypoint", build |-> b, tokens |-> <<f>> \o t] :
          b \in Builds, f \in FirstTokens,
          t \in SeqsUpTo({Lat, NotANumber, Infinite, TooLarge}, 0,
                         MaxTokens - 1)}

WaypointFile(in) == <<JoinTokens(in.tokens)>>

\* Waypoint::Load as built: the statement assert(tokens.size() == 3) ends
\* the program when its condition is false and NDEBUG is not defined, and
\* is no statement at all when it is.
WaypointLoadAs(build, file, segmentId, laneId, c) ==
  With([r \in {nextRealLine(file, c)} |->
  With([tokens \in {split(r.text, " ")} |->
  IF build = "debug" /\ Len(tokens) >= 3 /\ Len(tokens) # 3
  THEN [ok |-> FALSE, aborted |-> TRUE, cur |-> r.cur]
  ELSE With([w \in {WaypointLoad(file, segmentId, laneId, c)} |->
       IF w.ok
       THEN [ok |-> TRUE, aborted |-> FALSE, cur |-> w.cur,
             waypoint |-> w.waypoint]
       ELSE [ok |-> FALSE, aborted |-> FALSE, cur |-> w.cur]])])])

InitWaypoint ==
  /\ input \in WaypointInputs
  /\ doc = DefaultRNDF
  /\ before = DefaultRNDF
  /\ lane = DefaultLane
  /\ ret = "none"
  /\ cur = NewCursor(0)
  /\ err = "none"
  /\ path = "none"
  /\ call = NoCall
  /\ uid = DefaultUniqueId
  /\ obj = DefaultWaypoint
  /\ loaded = NotLoaded
  /\ direct = FALSE

\* Waypoint::Load on a fresh waypoint and a freshly opened stream.
LoadWaypoint ==
  \E r \in {WaypointLoadAs(input.build, WaypointFile(input), LaneSegmentId,
                           LaneId, NewCursor(0))} :
     /\ ret' = (IF r.aborted THEN "abort" ELSE Bool(r.ok))
     /\ obj' = (IF r.ok THEN r.waypoint ELSE obj)
     /\ cur' = r.cur
     /\ path' = "waypoint"
     /\ UNCHANGED <<input, doc, before, lane, err, call, uid, loaded, direct>>

NextWaypoint == LoadWaypoint

SpecWaypoint == InitWaypoint /\ [][NextWaypoint]_vars

\* C30: the assertion tokens.size() == 3 of Waypoint::Load holds whenever
\* it is reached: a waypoint line with a wrong number of tokens, more than
\* three as well as fewer, is rejected by returning false; it neither trips
\* the assertion nor is accepted.
C30_WrongTokenCountReturnsFalse ==
  (path = "waypoint" /\ Len(input.tokens) # 3) => ret = "false"

\* A line of fewer than three tokens is rejected by returning false.
C30_FewerTokensReturnFalse ==
  (path = "waypoint" /\ Len(input.tokens) < 3) => ret = "false"

\* The assertion is never tripped.
C30_AssertionHolds ==
  path = "waypoint" => ret # "abort"

\* No line of more than three tokens is accepted.
C30_MoreTokensNotAccepted ==
  (path = "waypoint" /\ Len(input.tokens) > 3) => ret # "true"

====
